---- MODULE Spec2Model ----
(***************************************************************************)
(* Model of the deterministic multi-step engine: the engine runner         *)
(* (src/src/engine.py), the step handlers (src/src/steps.py), the loop     *)
(* controller (src/src/looping.py), the validators and the trace records   *)
(* (src/src/trace.py).                                                     *)
(*                                                                         *)
(* Representation.                                                         *)
(*  - A Python dict is a function whose DOMAIN is the set of present keys. *)
(*  - A JSON value that is inspected dynamically (artifacts, stop values)  *)
(*    is a tagged value [t |-> type, v |-> payload].                       *)
(*  - A text string is the sequence of its tokens, a whitespace character  *)
(*    being the token " "; identifiers (step names, statuses) are strings. *)
(*  - A dotted path is the sequence of its segments (str.split(".")).      *)
(*  - sha256 is collision free: a digest is the term [sha256 |-> value],   *)
(*    and the canonical JSON text of a value is the term [json |-> value]  *)
(*    (functions carry no key order, as sort_keys=True gives the bytes).   *)
(***************************************************************************)
EXTENDS Integers, Sequences, FiniteSets, TLC

\* ------------------------------------------------------------- bounds
\* largest settings.loop.max_iterations a request asks for
MaxIterations == 2

\* the calls of execute_problem made with one request
MaxRuns == 2

\* the register calls made on the registry under test
MaxRegisterCalls == 4

\* the POST /v1/execute requests the server handles
MaxPosts == 2

\* the handler calls chained on one state
MaxChain == 3

VARIABLES
    request,              \* the arguments of the call: problem_spec, trace_id?, engine_version?, now?
    langgraph_installed,  \* whether the langgraph package can be imported on this host
    pc,                   \* "call", "loop", "return", "returned", "raised"
    exception,            \* the exception a raising call ends with, "none" otherwise
    engine_version,       \* the locals of execute_problem, under their names
    now_value,
    trace_id_value,
    steps,
    loop_config,
    loop_bounds,
    state,
    trace,
    prev_hash,
    index,
    failed,
    step_cursor,
    loop_iteration,
    run,                  \* the number of the current call with this request
    first_result,         \* what the first call returned
    policies,             \* PolicyRegistry._policies of a registry under test: name -> policy
    register_calls,       \* the policies register was called with, in call order
    registry_out,         \* what the last call on that registry returned or raised
    CACHE,                \* api._CACHE: whether it is configured, and the keys Redis holds
    TRACE_STORE,          \* api._TRACE_STORE: whether it is configured, and the two tables
    api_pc,               \* where the POST /v1/execute handler stands: "idle", "engine", "cache"
    http_request,         \* the body of the request being handled
    http_response,        \* the last HTTP response sent
    posts,                \* the POST /v1/execute exchanges completed so far, in order
    call,                 \* the last direct call of a function of the package: its arguments and outcome
    suspended             \* the execute_problem call of the other worker while this one runs: its arguments, position and locals

locals == <<engine_version, now_value, trace_id_value, steps, loop_config, loop_bounds, state, trace, prev_hash, index, failed, step_cursor, loop_iteration>>

\* what the engine does not touch: the registry under test and the HTTP layer
outer == <<policies, register_calls, registry_out, CACHE, TRACE_STORE, api_pc, http_request, http_response, posts>>

vars == <<request, langgraph_installed, pc, exception, locals, run, first_result, outer, call, suspended>>

\* ------------------------------------------------------ program constants
ENGINE_VERSION == "0.1.0"
TRACE_VERSION == "1.0.0"
STATE_VERSION == "1.0.0"

\* ------------------------------------------------------------ JSON values
JNull == [t |-> "null"]
JStr(toks) == [t |-> "str", v |-> toks]
JWord(w) == [t |-> "str", v |-> <<w>>]
JInt(n) == [t |-> "int", v |-> n]
JBool(b) == [t |-> "bool", v |-> b]
JList(s) == [t |-> "list", v |-> s]
JObj(f) == [t |-> "obj", v |-> f]

EmptyDict == [k \in {} |-> JNull]

\* d[k] = v on a copy of d
Put(d, k, v) == [x \in (DOMAIN d) \cup {k} |-> IF x = k THEN v ELSE d[x]]

\* d without key k
Drop(d, k) == [x \in (DOMAIN d) \ {k} |-> d[x]]

Has(d, k) == k \in DOMAIN d

\* str.strip() is empty
IsBlank(toks) == \A i \in 1..Len(toks) : toks[i] = " "

\* ---------------------------------------------------------------- hashing
canonical_json(obj) == [json |-> obj]

sha256_hex(data) == [sha256 |-> data]

hash_json(obj) == sha256_hex(canonical_json(obj))

\* mutant: the record_hash field is not removed before hashing
record_without_hash_keep(record) == record

record_without_hash(record) == Drop(record, "record_hash")

compute_record_hash(record) == hash_json(record_without_hash(record))

\* ---------------------------------------------------------- records records
create_trace_header(version, trace_id, created_at, engine_ver, problem_spec, initial_state) ==
    LET record == [type |-> "header",
                   version |-> version,
                   trace_id |-> trace_id,
                   created_at |-> created_at,
                   engine_version |-> engine_ver,
                   hash_algorithm |-> "sha256",
                   canonicalization |-> "json-c14n-v1",
                   problem_spec_hash |-> hash_json(problem_spec),
                   initial_state_hash |-> hash_json(initial_state)]
    IN Put(record, "record_hash", compute_record_hash(record))

create_trace_step(idx, step_index, result, state_before, state_after, prev) ==
    LET record == [type |-> "step",
                   index |-> idx,
                   step_index |-> step_index,
                   result |-> result,
                   state_before_hash |-> hash_json(state_before),
                   state_after_hash |-> hash_json(state_after),
                   prev_hash |-> prev]
    IN Put(record, "record_hash", compute_record_hash(record))

create_trace_control(idx, control_type, action, iteration, start_step, end_step, stop_path, stop_operator, stop_value, st, prev) ==
    LET record == [type |-> "control",
                   index |-> idx,
                   control_type |-> control_type,
                   action |-> action,
                   loop_iteration |-> iteration,
                   start_step |-> start_step,
                   end_step |-> end_step,
                   stop_path |-> stop_path,
                   stop_operator |-> stop_operator,
                   stop_value |-> stop_value,
                   state_hash |-> hash_json(st),
                   prev_hash |-> prev]
    IN Put(record, "record_hash", compute_record_hash(record))

\* ------------------------------------------------------------- validation
\* The strings the regular expressions of validation.py are tried on, each
\* with the integer parts the pattern ^\d+\.\d+\.\d+$ finds in it.
SemverParts == ("1.0.0" :> <<1, 0, 0>>) @@ ("0.1.0" :> <<0, 1, 0>>) @@ ("0.2.0" :> <<0, 2, 0>>) @@ ("2.0.0" :> <<2, 0, 0>>)

\* _SEMVER_RE.match(value)
validate_semver(value) == value \in DOMAIN SemverParts

\* the strings matching ^\d{4}-\d{2}-\d{2}T\d{2}:\d{2}:\d{2}Z$
IsoUtcStrings == {"2026-02-02T00:00:00Z", "2026-02-03T12:00:00Z"}

validate_iso8601_utc(value) == value \in IsoUtcStrings

\* a list of non-empty strings, or absent
validate_optional_str_list(d, k) == Has(d, k) => \A i \in 1..Len(d[k]) : ~IsBlank(d[k][i])

\* ------------------------------------------------------------------- loop
ALLOWED_OPERATORS == {"equals", "not_equals", "gt", "gte", "lt", "lte"}

ALLOWED_STOP_VALUE_TYPES == {"str", "int", "bool"}

NoLoop == [kind |-> "none"]

LoopError == [kind |-> "error"]

\* isinstance(x, int): bool is a subclass of int
IsInstanceInt(j) == j.t \in {"int", "bool"}

\* the number Python compares a bool or an int as
Num(j) == IF j.t = "bool" THEN (IF j.v THEN 1 ELSE 0) ELSE j.v

\* LoopConfig of the stop_condition part, or LoopError
parse_stop_condition(loop_settings) ==
    IF ~Has(loop_settings, "stop_condition") THEN LoopError
    ELSE LET stop_condition == loop_settings.stop_condition
             has_equals == Has(stop_condition, "equals")
             has_operator == Has(stop_condition, "operator")
             has_value == Has(stop_condition, "value")
         IN IF ~Has(stop_condition, "path") \/ stop_condition.path = <<>> THEN LoopError
            ELSE IF ~(Len(stop_condition.path) >= 2 /\ stop_condition.path[1] = "artifacts") THEN LoopError
            ELSE IF has_equals /\ (has_operator \/ has_value) THEN LoopError
            ELSE IF ~has_equals /\ (~has_operator \/ stop_condition.operator = "") THEN LoopError
            ELSE IF ~has_equals /\ stop_condition.operator \notin ALLOWED_OPERATORS THEN LoopError
            ELSE LET stop_operator == IF has_equals THEN "equals" ELSE stop_condition.operator
                     stop_value == IF has_equals THEN stop_condition.equals
                                   ELSE IF has_value THEN stop_condition.value ELSE JNull
                 IN IF stop_operator \in {"gt", "gte", "lt", "lte"} /\ stop_value.t # "int" THEN LoopError
                    ELSE IF stop_operator \notin {"gt", "gte", "lt", "lte"} /\ stop_value.t \notin ALLOWED_STOP_VALUE_TYPES THEN LoopError
                    ELSE [kind |-> "config",
                          start_step |-> loop_settings.start_step,
                          end_step |-> loop_settings.end_step,
                          max_iterations |-> loop_settings.max_iterations,
                          stop_path |-> stop_condition.path,
                          stop_operator |-> stop_operator,
                          stop_value |-> stop_value]

parse_loop_config(problem_spec) ==
    IF ~Has(problem_spec, "settings") THEN NoLoop
    ELSE IF ~Has(problem_spec.settings, "loop") THEN NoLoop
    ELSE LET loop_settings == problem_spec.settings.loop
             enabled == IF Has(loop_settings, "enabled") THEN loop_settings.enabled ELSE TRUE
         IN IF ~enabled THEN NoLoop
            ELSE IF ~Has(loop_settings, "start_step") \/ loop_settings.start_step = "" THEN LoopError
            ELSE IF ~Has(loop_settings, "end_step") \/ loop_settings.end_step = "" THEN LoopError
            ELSE IF ~Has(loop_settings, "max_iterations") \/ loop_settings.max_iterations <= 0 THEN LoopError
            ELSE parse_stop_condition(loop_settings)

\* list.index: the first position of x in seq (0-based), -1 when it is not there
IndexOf(seq, x) ==
    IF \E i \in 1..Len(seq) : seq[i] = x
    THEN (CHOOSE i \in 1..Len(seq) : seq[i] = x /\ \A j \in 1..(i - 1) : seq[j] # x) - 1
    ELSE -1

segment_length(bounds) == bounds.end_index - bounds.start_index + 1

resolve_loop_bounds(step_list, config) ==
    LET start_index == IndexOf(step_list, config.start_step)
        end_index == IndexOf(step_list, config.end_step)
    IN IF start_index < 0 \/ end_index < 0 \/ start_index > end_index THEN [kind |-> "error"]
       ELSE [kind |-> "bounds", start_index |-> start_index, end_index |-> end_index]

RECURSIVE Walk(_, _)
\* the loop of resolve_path from the value current on
Walk(current, segments) ==
    IF segments = <<>> THEN current
    ELSE IF current.t # "obj" \/ ~Has(current.v, Head(segments)) THEN JNull
    ELSE Walk(current.v[Head(segments)], Tail(segments))

\* resolve_path(st, path): the st's keys are its fields
resolve_path(payload, path) ==
    IF Head(path) \notin DOMAIN payload THEN JNull
    ELSE IF Head(path) = "artifacts" THEN Walk(JObj(payload.artifacts), Tail(path))
    ELSE JNull

\* Python's == between a resolved value and a scalar target
PyEq(value, target) ==
    IF IsInstanceInt(value) /\ IsInstanceInt(target) THEN Num(value) = Num(target)
    ELSE IF value.t = "str" /\ target.t = "str" THEN value.v = target.v
    ELSE FALSE

\* mutant: the predicate looks at how many steps have run, which differs from
\* one loop iteration to the next
stop_condition_met_counts_steps(st, config) == st.step_index > 7

\* mutant: an absent value is compared like any other, so it differs from every target
stop_condition_met_absent_compared(st, config) ==
    LET value == resolve_path(st, config.stop_path)
        operator == config.stop_operator
        target == config.stop_value
    IN IF operator = "equals" THEN PyEq(value, target)
       ELSE IF operator = "not_equals" THEN ~PyEq(value, target)
       ELSE IF operator = "gt" THEN value.t = "int" /\ value.v > Num(target)
       ELSE IF operator = "gte" THEN value.t = "int" /\ value.v >= Num(target)
       ELSE IF operator = "lt" THEN value.t = "int" /\ value.v < Num(target)
       ELSE IF operator = "lte" THEN value.t = "int" /\ value.v <= Num(target)
       ELSE FALSE

\* mutant: the comparison operators take a boolean for the integer Python counts it as
stop_condition_met_bool_is_int(st, config) ==
    LET value == resolve_path(st, config.stop_path)
        operator == config.stop_operator
        target == config.stop_value
    IN IF value.t = "null" THEN FALSE
       ELSE IF operator = "equals" THEN PyEq(value, target)
       ELSE IF operator = "not_equals" THEN ~PyEq(value, target)
       ELSE IF operator = "gt" THEN IsInstanceInt(value) /\ Num(value) > Num(target)
       ELSE IF operator = "gte" THEN IsInstanceInt(value) /\ Num(value) >= Num(target)
       ELSE IF operator = "lt" THEN IsInstanceInt(value) /\ Num(value) < Num(target)
       ELSE IF operator = "lte" THEN IsInstanceInt(value) /\ Num(value) <= Num(target)
       ELSE FALSE

stop_condition_met(st, config) ==
    LET value == resolve_path(st, config.stop_path)
        operator == config.stop_operator
        target == config.stop_value
    IN IF value.t = "null" THEN FALSE
       ELSE IF operator = "equals" THEN PyEq(value, target)
       ELSE IF operator = "not_equals" THEN ~PyEq(value, target)
       ELSE IF operator = "gt" THEN value.t = "int" /\ value.v > Num(target)
       ELSE IF operator = "gte" THEN value.t = "int" /\ value.v >= Num(target)
       ELSE IF operator = "lt" THEN value.t = "int" /\ value.v < Num(target)
       ELSE IF operator = "lte" THEN value.t = "int" /\ value.v <= Num(target)
       ELSE FALSE

\* ---------------------------------------------------------- step handlers
step_result(step, status, started_at, finished_at, input_payload, output_payload, errors) ==
    LET result == [version |-> "1.0.0",
                   step |-> step,
                   status |-> status,
                   input_hash |-> hash_json(input_payload),
                   output_hash |-> hash_json(output_payload),
                   started_at |-> started_at,
                   finished_at |-> finished_at]
    IN IF status = "success" THEN Put(result, "output", output_payload)
       ELSE IF status = "failed" THEN Put(result, "errors", errors)
       ELSE result

\* copy.deepcopy: values are immutable here, a copy is the value
copy_state(st) == st

\* mutant: updated_at is read from the wall clock, which differs between calls
advance_state_clock(st, now, artifact_key, artifact_value) ==
    LET next_state == copy_state(st)
    IN [next_state EXCEPT !.step_index = next_state.step_index + 1,
                          !.status = "running",
                          !.artifacts = Put(next_state.artifacts, artifact_key, artifact_value),
                          !.metadata = Put(next_state.metadata, "updated_at", IF run = 1 THEN "2026-02-02T00:00:00Z" ELSE "2026-02-03T12:00:00Z")]

\* mutant: the artifacts of the next state hold the new slot only
advance_state_resets_artifacts(st, now, artifact_key, artifact_value) ==
    LET next_state == copy_state(st)
    IN [next_state EXCEPT !.step_index = next_state.step_index + 1,
                          !.status = "running",
                          !.artifacts = Put(EmptyDict, artifact_key, artifact_value),
                          !.metadata = Put(next_state.metadata, "updated_at", now)]

advance_state(st, now, artifact_key, artifact_value) ==
    LET next_state == copy_state(st)
    IN [next_state EXCEPT !.step_index = next_state.step_index + 1,
                          !.status = "running",
                          !.artifacts = Put(next_state.artifacts, artifact_key, artifact_value),
                          !.metadata = Put(next_state.metadata, "updated_at", now)]

RECURSIVE CollapseWhitespace(_)
\* _WHITESPACE_RE.sub(" ", prompt): every run of whitespace becomes one space
CollapseWhitespace(toks) ==
    IF Len(toks) <= 1 THEN toks
    ELSE IF toks[1] = " " /\ toks[2] = " " THEN CollapseWhitespace(Tail(toks))
    ELSE <<toks[1]>> \o CollapseWhitespace(Tail(toks))

\* str.strip() of a text whose whitespace runs are single spaces
Strip(toks) ==
    LET a == IF toks # <<>> /\ Head(toks) = " " THEN Tail(toks) ELSE toks
    IN IF a # <<>> /\ a[Len(a)] = " " THEN SubSeq(a, 1, Len(a) - 1) ELSE a

Inputs(st) == IF Has(st.problem, "inputs") THEN st.problem.inputs ELSE EmptyDict

Settings(problem) == IF Has(problem, "settings") THEN problem.settings ELSE EmptyDict

\* mutant: the failing branch advances the state as the success branch does
normalize_fail_advances(st, now) ==
    LET inputs == Inputs(st)
    IN IF ~Has(inputs, "prompt") \/ IsBlank(inputs.prompt)
       THEN [state |-> advance_state(st, now, "normalized", JObj(EmptyDict)),
             result |-> step_result("Normalize", "failed", now, now,
                                    [prompt |-> IF Has(inputs, "prompt") THEN JStr(inputs.prompt) ELSE JNull],
                                    JObj(EmptyDict),
                                    <<[code |-> "invalid_prompt", message |-> <<"prompt is required">>]>>)]
       ELSE LET normalized_prompt == Strip(CollapseWhitespace(inputs.prompt))
                output == JObj([normalized_prompt |-> JStr(normalized_prompt)])
            IN [state |-> advance_state(st, now, "normalized", output),
                result |-> step_result("Normalize", "success", now, now,
                                       [prompt |-> JStr(inputs.prompt)], output, <<>>)]

normalize(st, now) ==
    LET inputs == Inputs(st)
    IN IF ~Has(inputs, "prompt") \/ IsBlank(inputs.prompt)
       THEN [state |-> copy_state(st),
             result |-> step_result("Normalize", "failed", now, now,
                                    [prompt |-> IF Has(inputs, "prompt") THEN JStr(inputs.prompt) ELSE JNull],
                                    JObj(EmptyDict),
                                    <<[code |-> "invalid_prompt", message |-> <<"prompt is required">>]>>)]
       ELSE LET normalized_prompt == Strip(CollapseWhitespace(inputs.prompt))
                output == JObj([normalized_prompt |-> JStr(normalized_prompt)])
            IN [state |-> advance_state(st, now, "normalized", output),
                result |-> step_result("Normalize", "success", now, now,
                                       [prompt |-> JStr(inputs.prompt)], output, <<>>)]

\* [goal for goal in goals if goal.strip()]
SelectNonBlank(goals) == SelectSeq(goals, LAMBDA g : ~IsBlank(g))

JTexts(seq) == [i \in 1..Len(seq) |-> JStr(seq[i])]

decompose(st, now) ==
    LET inputs == Inputs(st)
        goals == IF Has(inputs, "goals") THEN inputs.goals ELSE <<>>
        normalized == IF Has(st.artifacts, "normalized") THEN st.artifacts.normalized.v ELSE EmptyDict
        base_prompt == IF Has(normalized, "normalized_prompt") /\ normalized.normalized_prompt.v # <<>>
                       THEN normalized.normalized_prompt
                       ELSE IF Has(inputs, "prompt") THEN JStr(inputs.prompt) ELSE JNull
        selected == SelectNonBlank(goals)
        tasks == IF selected # <<>> THEN JTexts(selected)
                 ELSE IF base_prompt.t = "str" /\ ~IsBlank(base_prompt.v) THEN <<base_prompt>>
                 ELSE <<JWord("unspecified task")>>
        output == JObj([tasks |-> JList(tasks)])
    IN [state |-> advance_state(st, now, "decomposition", output),
        result |-> step_result("Decompose", "success", now, now,
                               [goals |-> JList(JTexts(goals)), prompt |-> base_prompt], output, <<>>)]

acquire_evidence(st, now) ==
    LET inputs == Inputs(st)
        settings == Settings(st.problem)
        context == IF Has(inputs, "context") THEN inputs.context ELSE EmptyDict
        evidence_list == IF Has(context, "evidence") THEN context.evidence ELSE <<>>
        output == JObj([evidence |-> JList(evidence_list),
                        evidence_required |-> JBool(IF Has(settings, "evidence_required") THEN settings.evidence_required ELSE FALSE),
                        evidence_count |-> JInt(Len(evidence_list))])
    IN [state |-> advance_state(st, now, "evidence", output),
        result |-> step_result("AcquireEvidence", "success", now, now,
                               [evidence |-> JList(evidence_list)], output, <<>>)]

\* (artifacts.get("decomposition") or {}).get("tasks") or []
TasksOf(artifacts) ==
    IF Has(artifacts, "decomposition") /\ Has(artifacts.decomposition.v, "tasks")
    THEN artifacts.decomposition.v.tasks.v ELSE <<>>

compute(st, now) ==
    LET tasks == TasksOf(st.artifacts)
        output == JObj([task_count |-> JInt(Len(tasks)), status |-> JWord("ok")])
    IN [state |-> advance_state(st, now, "computation", output),
        result |-> step_result("Compute", "success", now, now,
                               [tasks |-> JList(tasks)], output, <<>>)]

\* "passed" if passed else "failed"
PassedWord(passed) == JWord(IF passed THEN "passed" ELSE "failed")

\* PathChecks judging every path as if evidence were required
PathChecks_EvidenceAlwaysRequired(base_checks, evidence_required) ==
    LET checks == Put(base_checks, "evidence_required", JBool(evidence_required))
        passed == base_checks.tasks_present.v /\ base_checks.evidence_present.v
    IN [checks |-> checks, passed |-> passed]

\* the checks of one verification path and whether it passes
PathChecks(base_checks, evidence_required) ==
    LET checks == Put(base_checks, "evidence_required", JBool(evidence_required))
        passed == base_checks.tasks_present.v /\ (~evidence_required \/ base_checks.evidence_present.v)
    IN [checks |-> checks, passed |-> passed]

verify(st, now) ==
    LET artifacts == st.artifacts
        tasks == TasksOf(artifacts)
        evidence == IF Has(artifacts, "evidence") THEN artifacts.evidence.v ELSE EmptyDict
        evidence_count == IF Has(evidence, "evidence_count") THEN evidence.evidence_count.v ELSE 0
        settings == Settings(st.problem)
        evidence_required_default == IF Has(settings, "evidence_required") THEN settings.evidence_required ELSE FALSE
        base_checks == [tasks_present |-> JBool(tasks # <<>>),
                        task_count |-> JInt(Len(tasks)),
                        evidence_present |-> JBool(evidence_count # 0)]
        verification_paths == IF Has(settings, "verification_paths") THEN settings.verification_paths ELSE <<>>
        named == SelectSeq(verification_paths, LAMBDA e : Has(e, "name") /\ ~IsBlank(e.name))
        judged == [i \in 1..Len(named) |->
                      PathChecks(base_checks,
                                 IF Has(named[i], "evidence_required") THEN named[i].evidence_required
                                 ELSE evidence_required_default)]
        paths_output == [i \in 1..Len(named) |->
                            JObj([name |-> JStr(named[i].name),
                                  checks |-> JObj(judged[i].checks),
                                  status |-> PassedWord(judged[i].passed)])]
        aggregate_passed == \A i \in 1..Len(named) : judged[i].passed
        failed_count == Cardinality({i \in 1..Len(named) : ~judged[i].passed})
        single == PathChecks(base_checks, evidence_required_default)
        output == IF verification_paths # <<>>
                  THEN JObj([paths |-> JList(paths_output),
                             aggregate |-> JObj([status |-> PassedWord(aggregate_passed),
                                                 total |-> JInt(Len(named)),
                                                 failed_count |-> JInt(failed_count)]),
                             status |-> PassedWord(aggregate_passed)])
                  ELSE JObj([checks |-> JObj(single.checks), status |-> PassedWord(single.passed)])
    IN [state |-> advance_state(st, now, "verification", output),
        result |-> step_result("Verify", "success", now, now,
                               [tasks |-> JList(tasks)], output, <<>>)]

\* the decimal digits of a small count, as f"{task_count}" prints it
Decimal(n) == CASE n = 0 -> "0" [] n = 1 -> "1" [] n = 2 -> "2" [] n = 3 -> "3" [] OTHER -> "many"

synthesize(st, now) ==
    LET computation == IF Has(st.artifacts, "computation") THEN st.artifacts.computation.v ELSE EmptyDict
        task_count == IF Has(computation, "task_count") THEN computation.task_count.v ELSE 0
        output == JObj([summary |-> JStr(<<"Processed", " ", Decimal(task_count), " ", "task(s).">>)])
    IN [state |-> advance_state(st, now, "synthesis", output),
        result |-> step_result("Synthesize", "success", now, now,
                               [task_count |-> JInt(task_count)], output, <<>>)]

\* the artifact slots in the order sorted() puts them
SortedSlots == <<"audit", "computation", "decomposition", "evidence", "normalized", "synthesis", "verification">>

\* sorted(artifacts.keys())
SortedKeys(artifacts) == JTexts(SelectSeq([i \in 1..Len(SortedSlots) |-> <<SortedSlots[i]>>], LAMBDA k : Has(artifacts, k[1])))

audit(st, now) ==
    LET artifact_keys == JList(SortedKeys(st.artifacts))
        output == JObj([artifact_keys |-> artifact_keys, status |-> JWord("ok")])
    IN [state |-> advance_state(st, now, "audit", output),
        result |-> step_result("Audit", "success", now, now,
                               [artifact_keys |-> artifact_keys], output, <<>>)]

\* _STEP_HANDLERS[step_name](st, now=now)
STEP_HANDLERS(step_name, st, now) ==
    CASE step_name = "Normalize" -> normalize(st, now)
      [] step_name = "Decompose" -> decompose(st, now)
      [] step_name = "AcquireEvidence" -> acquire_evidence(st, now)
      [] step_name = "Compute" -> compute(st, now)
      [] step_name = "Verify" -> verify(st, now)
      [] step_name = "Synthesize" -> synthesize(st, now)
      [] step_name = "Audit" -> audit(st, now)

KnownSteps == {"Normalize", "Decompose", "AcquireEvidence", "Compute", "Verify", "Synthesize", "Audit"}

\* ---------------------------------------------------------------- routing
DEFAULT_POLICY == [name |-> "default", steps |-> <<"Normalize", "Decompose", "AcquireEvidence", "Compute", "Verify", "Synthesize", "Audit">>]

\* the registry default_registry() builds: name -> policy
default_registry == (DEFAULT_POLICY.name :> DEFAULT_POLICY)

select_policy_name(problem_spec, fallback) ==
    LET settings == Settings(problem_spec)
    IN IF Has(settings, "policy_profile") /\ settings.policy_profile # "" THEN settings.policy_profile
       ELSE fallback

\* resolve_steps: the step_list, or the KeyError of PolicyRegistry.get
resolve_steps(problem_spec) ==
    LET policy_name == select_policy_name(problem_spec, "default")
    IN IF policy_name \in DOMAIN default_registry
       THEN [kind |-> "steps", steps |-> default_registry[policy_name].steps]
       ELSE [kind |-> "error", error |-> "KeyError"]

ensure_steps_known(step_list, known_steps) == \A i \in 1..Len(step_list) : step_list[i] \in known_steps

validate_unique_steps(step_list) == \A i, j \in 1..Len(step_list) : step_list[i] = step_list[j] => i = j

build_linear_graph(step_list) == step_list # <<>>

\* ------------------------------------------------------------- validation
validate_problem_spec(problem_spec) ==
    /\ Has(problem_spec, "version") /\ validate_semver(problem_spec.version)
    /\ SemverParts[problem_spec.version][1] = 1
    /\ Has(problem_spec, "id") /\ problem_spec.id # ""
    /\ Has(problem_spec, "created_at") /\ validate_iso8601_utc(problem_spec.created_at)
    /\ Has(problem_spec, "inputs")
    /\ Has(problem_spec.inputs, "prompt") /\ ~IsBlank(problem_spec.inputs.prompt)
    /\ validate_optional_str_list(problem_spec.inputs, "constraints")
    /\ validate_optional_str_list(problem_spec.inputs, "goals")
    /\ Has(problem_spec, "settings") =>
          LET settings == problem_spec.settings
          IN /\ Has(settings, "max_steps") => settings.max_steps > 0
             /\ Has(settings, "policy_profile") => settings.policy_profile # ""
             /\ Has(settings, "model_profile") => settings.model_profile # ""
             /\ Has(settings, "verification_paths") =>
                   \A i \in 1..Len(settings.verification_paths) :
                       /\ Has(settings.verification_paths[i], "name")
                       /\ ~IsBlank(settings.verification_paths[i].name)
             /\ parse_loop_config(problem_spec).kind # "error"

\* ----------------------------------------------------------- orchestration
build_orchestration_plan(problem_spec) ==
    LET settings == Settings(problem_spec)
        framework == IF Has(settings, "orchestration_framework") /\ settings.orchestration_framework # ""
                     THEN settings.orchestration_framework ELSE "native"
        resolved == resolve_steps(problem_spec)
    IN IF ~validate_problem_spec(problem_spec) THEN [kind |-> "error", error |-> "ValueError"]
       ELSE IF framework \notin {"native", "langgraph"} THEN [kind |-> "error", error |-> "ValueError"]
       ELSE IF resolved.kind = "error" THEN resolved
       ELSE IF ~ensure_steps_known(resolved.steps, KnownSteps) THEN [kind |-> "error", error |-> "ValueError"]
       ELSE IF ~validate_unique_steps(resolved.steps) THEN [kind |-> "error", error |-> "ValueError"]
       ELSE IF ~build_linear_graph(resolved.steps) THEN [kind |-> "error", error |-> "ValueError"]
       ELSE [kind |-> "plan", framework |-> framework, steps |-> resolved.steps]

\* compile_langgraph_plan: fails when the package is missing or step_list is empty
compile_langgraph_plan(step_list) ==
    IF ~langgraph_installed THEN "RuntimeError"
    ELSE IF step_list = <<>> THEN "ValueError"
    ELSE "ok"

\* ------------------------------------------------------------------ engine
\* mutant: the errors of the failed result are not appended
ensure_failed_state_no_errors(st, result, now) ==
    LET next_state == copy_state(st)
    IN [next_state EXCEPT !.status = "failed",
                          !.metadata = Put(next_state.metadata, "updated_at", now)]

ensure_failed_state(st, result, now) ==
    LET next_state == copy_state(st)
        errors == next_state.errors \o (IF Has(result, "errors") THEN result.errors ELSE <<>>)
    IN [next_state EXCEPT !.status = "failed",
                          !.errors = errors,
                          !.metadata = Put(next_state.metadata, "updated_at", now)]

\* mutant: the status is left as the last step set it
ensure_completed_state_keep(st, now) ==
    LET next_state == copy_state(st)
    IN [next_state EXCEPT !.metadata = Put(next_state.metadata, "updated_at", now)]

ensure_completed_state(st, now) ==
    LET next_state == copy_state(st)
    IN [next_state EXCEPT !.status = "completed",
                          !.metadata = Put(next_state.metadata, "updated_at", now)]

\* _resolve_steps: the step_list, or the exception raised
engine_resolve_steps(problem_spec) ==
    LET plan == build_orchestration_plan(problem_spec)
    IN IF plan.kind = "error" THEN plan
       ELSE IF ~ensure_steps_known(plan.steps, KnownSteps) THEN [kind |-> "error", error |-> "ValueError"]
       ELSE IF ~validate_unique_steps(plan.steps) THEN [kind |-> "error", error |-> "ValueError"]
       ELSE IF ~build_linear_graph(plan.steps) THEN [kind |-> "error", error |-> "ValueError"]
       ELSE IF plan.framework = "langgraph" /\ compile_langgraph_plan(plan.steps) # "ok"
            THEN [kind |-> "error", error |-> compile_langgraph_plan(plan.steps)]
       ELSE [kind |-> "steps", steps |-> plan.steps]

\* settings.get(key) as a JSON string, None when the key is absent
GetStr(d, k) == IF Has(d, k) THEN JWord(d[k]) ELSE JNull

initial_state(problem_spec, trace_id, now) ==
    LET inputs == IF Has(problem_spec, "inputs") THEN problem_spec.inputs ELSE EmptyDict
        settings == Settings(problem_spec)
    IN [version |-> STATE_VERSION,
        problem |-> copy_state(problem_spec),
        step_index |-> 0,
        status |-> "pending",
        artifacts |-> EmptyDict,
        assumptions |-> <<>>,
        constraints |-> IF Has(inputs, "constraints") THEN inputs.constraints ELSE <<>>,
        errors |-> <<>>,
        metadata |-> [trace_id |-> trace_id,
                      policy_profile |-> GetStr(settings, "policy_profile"),
                      model_profile |-> GetStr(settings, "model_profile"),
                      created_at |-> problem_spec.created_at,
                      updated_at |-> now]]

\* f"Loop stop condition not met after {max_iterations} iteration(s)."
MaxIterationsMessage(max_iterations) == <<"Loop stop condition not met after ", Decimal(max_iterations), " iteration(s).">>

\* x or default, for an optional string argument
OrElse(d, k, default) == IF Has(d, k) /\ d[k] # "" THEN d[k] ELSE default

\* mutant: the required step count leaves the loop repeats out
PreambleError_NoLoopTerm(req) ==
    LET problem_spec == req.problem_spec
        version == OrElse(req, "engine_version", ENGINE_VERSION)
        now == OrElse(req, "now", problem_spec.created_at)
        resolved == engine_resolve_steps(problem_spec)
        config == parse_loop_config(problem_spec)
        bounds == IF config.kind = "config" THEN resolve_loop_bounds(resolved.steps, config) ELSE [kind |-> "none"]
        settings == Settings(problem_spec)
    IN IF ~validate_problem_spec(problem_spec) THEN "ValueError"
       ELSE IF ~validate_semver(version) THEN "ValueError"
       ELSE IF ~validate_iso8601_utc(now) THEN "ValueError"
       ELSE IF resolved.kind = "error" THEN resolved.error
       ELSE IF config.kind = "error" \/ bounds.kind = "error" THEN "ValueError"
       ELSE IF Has(settings, "max_steps") /\ settings.max_steps < Len(resolved.steps) THEN "ValueError"
       ELSE "none"

\* the exception lines 125-146 of execute_problem raise, "none" when they pass
PreambleError(req) ==
    LET problem_spec == req.problem_spec
        version == OrElse(req, "engine_version", ENGINE_VERSION)
        now == OrElse(req, "now", problem_spec.created_at)
        resolved == engine_resolve_steps(problem_spec)
        config == parse_loop_config(problem_spec)
        bounds == IF config.kind = "config" THEN resolve_loop_bounds(resolved.steps, config) ELSE [kind |-> "none"]
        settings == Settings(problem_spec)
        max_required == Len(resolved.steps) + (IF config.kind = "config" THEN (config.max_iterations - 1) * segment_length(bounds) ELSE 0)
    IN IF ~validate_problem_spec(problem_spec) THEN "ValueError"
       ELSE IF ~validate_semver(version) THEN "ValueError"
       ELSE IF ~validate_iso8601_utc(now) THEN "ValueError"
       ELSE IF resolved.kind = "error" THEN resolved.error
       ELSE IF config.kind = "error" \/ bounds.kind = "error" THEN "ValueError"
       ELSE IF Has(settings, "max_steps") /\ settings.max_steps < max_required THEN "ValueError"
       ELSE "none"

NoState == [status |-> "none"]

NoHash == [none |-> TRUE]

NoResult == [kind |-> "none"]

\* no second worker
NoFrame == [kind |-> "none"]

\* execute_problem up to the while loop: validation, the initial state, the header
Preamble ==
    /\ pc = "call"
    /\ LET problem_spec == request.problem_spec
           error == PreambleError(request)
           version == OrElse(request, "engine_version", ENGINE_VERSION)
           now == OrElse(request, "now", problem_spec.created_at)
           trace_id == OrElse(request, "trace_id", problem_spec.id)
           resolved == engine_resolve_steps(problem_spec)
           config == parse_loop_config(problem_spec)
           state0 == initial_state(problem_spec, trace_id, now)
           header == create_trace_header(TRACE_VERSION, trace_id, now, version, problem_spec, state0)
       IN IF error # "none"
          THEN /\ pc' = "raised"
               /\ exception' = error
               /\ UNCHANGED locals
          ELSE /\ pc' = "loop"
               /\ exception' = "none"
               /\ engine_version' = version
               /\ now_value' = now
               /\ trace_id_value' = trace_id
               /\ steps' = resolved.steps
               /\ loop_config' = config
               /\ loop_bounds' = IF config.kind = "config" THEN resolve_loop_bounds(resolved.steps, config) ELSE [kind |-> "none"]
               /\ state' = state0
               /\ trace' = <<header>>
               /\ prev_hash' = header.record_hash
               /\ index' = 1
               /\ failed' = FALSE
               /\ step_cursor' = 0
               /\ loop_iteration' = 0
    /\ UNCHANGED <<outer, request, langgraph_installed, suspended, call, run, first_result>>

\* mutant: the iteration bound is compared with <=, one repeat too many
LoopAction_OffByOne(has_loop, cursor, iteration, state_after) ==
    IF ~(has_loop /\ cursor = loop_bounds.end_index /\ iteration > 0) THEN "none"
    ELSE IF stop_condition_met(state_after, loop_config) THEN "stop"
    ELSE IF iteration <= loop_config.max_iterations THEN "repeat"
    ELSE "max_iterations_reached"

\* mutant: the loop decision is taken after every step of the segment
LoopAction_AnyStep(has_loop, cursor, iteration, state_after) ==
    IF ~(has_loop /\ iteration > 0) THEN "none"
    ELSE IF stop_condition_met(state_after, loop_config) THEN "stop"
    ELSE IF iteration < loop_config.max_iterations THEN "repeat"
    ELSE "max_iterations_reached"

\* the loop action of lines 182-204: "none" off the end step
LoopAction(has_loop, cursor, iteration, state_after) ==
    IF ~(has_loop /\ cursor = loop_bounds.end_index /\ iteration > 0) THEN "none"
    ELSE IF stop_condition_met(state_after, loop_config) THEN "stop"
    ELSE IF iteration < loop_config.max_iterations THEN "repeat"
    ELSE "max_iterations_reached"

\* mutant: a repeat sends the cursor back to the first step of the list
NextCursor_RepeatFromZero(loop_action, cursor) == IF loop_action = "repeat" THEN 0 ELSE cursor + 1

\* mutant: a stop sends the cursor back to the start step as a repeat does
NextCursor_StopRepeats(loop_action, cursor) == IF loop_action \in {"repeat", "stop"} THEN loop_bounds.start_index ELSE cursor + 1

\* step_cursor after the loop action
NextCursor(loop_action, cursor) == IF loop_action = "repeat" THEN loop_bounds.start_index ELSE cursor + 1

\* loop_iteration once the start step is reached (lines 170-171)
Entered(has_loop) == IF has_loop /\ step_cursor = loop_bounds.start_index /\ loop_iteration = 0 THEN 1 ELSE loop_iteration

\* lines 175-178: a failed result marks the state failed
Handled(out) == IF out.result.status = "failed" THEN ensure_failed_state(out.state, out.result, now_value) ELSE out.state

\* mutant: running out of iterations leaves the state as the handler returned it
StateAfter_KeepsRunning(handled, loop_action) == handled

\* lines 193-204: the state after the loop decision
StateAfter(handled, loop_action) ==
    IF loop_action = "max_iterations_reached"
    THEN ensure_failed_state(handled,
                             [errors |-> <<[code |-> "loop_max_iterations_reached",
                                            message |-> MaxIterationsMessage(loop_config.max_iterations),
                                            step |-> loop_config.end_step]>>],
                             now_value)
    ELSE handled

\* mutant: a repeat does not count the iteration
Commit_NoIterationIncrement(entered, loop_action, now_failed, state_after, record, control) ==
    /\ state' = state_after
    /\ trace' = IF loop_action # "none" THEN trace \o <<record, control>> ELSE Append(trace, record)
    /\ prev_hash' = IF loop_action # "none" THEN control.record_hash ELSE record.record_hash
    /\ index' = IF loop_action # "none" THEN index + 2 ELSE index + 1
    /\ failed' = now_failed
    /\ loop_iteration' = entered
    /\ step_cursor' = IF now_failed THEN step_cursor ELSE NextCursor(loop_action, step_cursor)
    /\ pc' = IF now_failed THEN "return" ELSE "loop"

\* mutant: index grows by one per iteration, a control record is not counted
Commit_IndexOnce(entered, loop_action, now_failed, state_after, record, control) ==
    /\ state' = state_after
    /\ trace' = IF loop_action # "none" THEN trace \o <<record, control>> ELSE Append(trace, record)
    /\ prev_hash' = IF loop_action # "none" THEN control.record_hash ELSE record.record_hash
    /\ index' = index + 1
    /\ failed' = now_failed
    /\ loop_iteration' = IF loop_action = "repeat" THEN entered + 1 ELSE entered
    /\ step_cursor' = IF now_failed THEN step_cursor ELSE NextCursor(loop_action, step_cursor)
    /\ pc' = IF now_failed THEN "return" ELSE "loop"

\* lines 214-237: the records are appended, the state committed, the cursor moved
Commit(entered, loop_action, now_failed, state_after, record, control) ==
    /\ state' = state_after
    /\ trace' = IF loop_action # "none" THEN trace \o <<record, control>> ELSE Append(trace, record)
    /\ prev_hash' = IF loop_action # "none" THEN control.record_hash ELSE record.record_hash
    /\ index' = IF loop_action # "none" THEN index + 2 ELSE index + 1
    /\ failed' = now_failed
    /\ loop_iteration' = IF loop_action = "repeat" THEN entered + 1 ELSE entered
    /\ step_cursor' = IF now_failed THEN step_cursor ELSE NextCursor(loop_action, step_cursor)
    /\ pc' = IF now_failed THEN "return" ELSE "loop"

\* mutant: the control record is chained to the record before the step record
Emit_StalePrev(entered, loop_action, now_failed, state_after, record) ==
    Commit(entered, loop_action, now_failed, state_after, record,
           IF loop_action = "none" THEN record
           ELSE create_trace_control(index + 1, "loop", loop_action, entered, loop_config.start_step, loop_config.end_step, loop_config.stop_path, loop_config.stop_operator, loop_config.stop_value, state_after, prev_hash))

\* mutant: the control record hashes the state the iteration started from
Emit_ControlOfOldState(entered, loop_action, now_failed, state_after, record) ==
    Commit(entered, loop_action, now_failed, state_after, record,
           IF loop_action = "none" THEN record
           ELSE create_trace_control(index + 1, "loop", loop_action, entered, loop_config.start_step, loop_config.end_step, loop_config.stop_path, loop_config.stop_operator, loop_config.stop_value, state, record.record_hash))

\* lines 206-234: the step record and the control record of the iteration
Emit(entered, loop_action, now_failed, state_after, record) ==
    Commit(entered, loop_action, now_failed, state_after, record,
           IF loop_action = "none" THEN record
           ELSE create_trace_control(index + 1, "loop", loop_action, entered, loop_config.start_step, loop_config.end_step, loop_config.stop_path, loop_config.stop_operator, loop_config.stop_value, state_after, record.record_hash))

\* mutant: the handler changed the state in place, state_before is hashed after it
Decide_BeforeIsAfter(entered, out, state_before, loop_action, state_after) ==
    Emit(entered, loop_action,
         failed \/ out.result.status = "failed" \/ loop_action = "max_iterations_reached",
         state_after,
         create_trace_step(index, state_before.step_index, out.result, out.state, state_after, prev_hash))

\* mutant: the step record carries the position in the step list
Decide_CursorAsStepIndex(entered, out, state_before, loop_action, state_after) ==
    Emit(entered, loop_action,
         failed \/ out.result.status = "failed" \/ loop_action = "max_iterations_reached",
         state_after,
         create_trace_step(index, step_cursor, out.result, state_before, state_after, prev_hash))

\* lines 206-213: the step record of the iteration
Decide(entered, out, state_before, loop_action, state_after) ==
    Emit(entered, loop_action,
         failed \/ out.result.status = "failed" \/ loop_action = "max_iterations_reached",
         state_after,
         create_trace_step(index, state_before.step_index, out.result, state_before, state_after, prev_hash))

AfterHandler(has_loop, entered, out, state_before, handled, loop_action) ==
    Decide(entered, out, state_before, loop_action, StateAfter(handled, loop_action))

AfterStep(has_loop, entered, out, state_before, handled) ==
    AfterHandler(has_loop, entered, out, state_before, handled, LoopAction(has_loop, step_cursor, entered, handled))

Iterate(has_loop, entered, state_before, out) ==
    AfterStep(has_loop, entered, out, state_before, Handled(out))

\* one iteration of the while loop of execute_problem (lines 168-237)
RunStep ==
    /\ pc = "loop"
    /\ step_cursor < Len(steps)
    /\ Iterate(loop_bounds.kind = "bounds" /\ loop_config.kind = "config",
               Entered(loop_bounds.kind = "bounds" /\ loop_config.kind = "config"),
               copy_state(state),
               STEP_HANDLERS(steps[step_cursor + 1], copy_state(state), now_value))
    /\ UNCHANGED <<outer, request, langgraph_installed, suspended, call, exception, engine_version, now_value, trace_id_value, steps, loop_config, loop_bounds, run, first_result>>

\* mutant: the state is completed whether the run failed or not
Finalize_IgnoreFailed ==
    /\ \/ pc = "return"
       \/ pc = "loop" /\ step_cursor >= Len(steps)
    /\ state' = ensure_completed_state(state, now_value)
    /\ pc' = "returned"
    /\ UNCHANGED <<outer, request, langgraph_installed, suspended, call, exception, engine_version, now_value, trace_id_value, steps, loop_config, loop_bounds, trace, prev_hash, index, failed, step_cursor, loop_iteration, run, first_result>>

\* mutant: the call returns the state as the loop left it
Finalize_NeverCompletes ==
    /\ \/ pc = "return"
       \/ pc = "loop" /\ step_cursor >= Len(steps)
    /\ state' = state
    /\ pc' = "returned"
    /\ UNCHANGED <<outer, request, langgraph_installed, suspended, call, exception, engine_version, now_value, trace_id_value, steps, loop_config, loop_bounds, trace, prev_hash, index, failed, step_cursor, loop_iteration, run, first_result>>

\* lines 239-247: the state is completed unless the run failed, and the call returns
Finalize ==
    /\ \/ pc = "return"
       \/ pc = "loop" /\ step_cursor >= Len(steps)
    /\ state' = IF ~failed /\ state.status = "running" THEN ensure_completed_state(state, now_value) ELSE state
    /\ pc' = "returned"
    /\ UNCHANGED <<outer, request, langgraph_installed, suspended, call, exception, engine_version, now_value, trace_id_value, steps, loop_config, loop_bounds, trace, prev_hash, index, failed, step_cursor, loop_iteration, run, first_result>>

\* what the call gave its caller: the ExecutionResult, or the exception
ExecutionResult ==
    IF pc = "raised" THEN [kind |-> "raised", exception |-> exception]
    ELSE [kind |-> "returned", trace_id |-> trace_id_value, engine_version |-> engine_version, trace |-> trace, final_state |-> state]

\* the caller calls execute_problem again with the same arguments
CallAgain ==
    /\ pc \in {"returned", "raised"}
    /\ run < MaxRuns
    /\ run' = run + 1
    /\ first_result' = IF run = 1 THEN ExecutionResult ELSE first_result
    /\ pc' = "call"
    /\ exception' = "none"
    /\ engine_version' = ""
    /\ now_value' = ""
    /\ trace_id_value' = ""
    /\ steps' = <<>>
    /\ loop_config' = NoLoop
    /\ loop_bounds' = [kind |-> "none"]
    /\ state' = NoState
    /\ trace' = <<>>
    /\ prev_hash' = NoHash
    /\ index' = 0
    /\ failed' = FALSE
    /\ step_cursor' = 0
    /\ loop_iteration' = 0
    /\ UNCHANGED <<outer, request, langgraph_installed, suspended, call>>

\* what a handler returns when it fails, as normalize does on a blank prompt
\* (steps.py 77-90): the state it was given and a result with status failed
StepFailure(step_name, st, now) ==
    [state |-> copy_state(st),
     result |-> step_result(step_name, "failed", now, now, EmptyDict, JObj(EmptyDict),
                            <<[code |-> IF step_name = "Normalize" THEN "invalid_prompt" ELSE "step_failed",
                               message |-> IF step_name = "Normalize" THEN <<"prompt is required">> ELSE <<"step failed">>]>>)]

\* one iteration of the while loop whose handler returns a failed result
RunStepFailing ==
    /\ pc = "loop"
    /\ step_cursor < Len(steps)
    /\ Iterate(loop_bounds.kind = "bounds" /\ loop_config.kind = "config",
               Entered(loop_bounds.kind = "bounds" /\ loop_config.kind = "config"),
               copy_state(state),
               StepFailure(steps[step_cursor + 1], copy_state(state), now_value))
    /\ UNCHANGED <<outer, request, langgraph_installed, suspended, call, exception, engine_version, now_value, trace_id_value, steps, loop_config, loop_bounds, run, first_result>>

\* ---------------------------------------------------------------- requests
\* a dict with key k when o = <<v>>, without it when o = <<>>
Opt(k, o) == IF o = <<>> THEN EmptyDict ELSE (k :> o[1])

BasePrompt == <<"Hello", " ", "world">>

Prompts == {BasePrompt, <<" ", "Hello", " ", " ", "world", " ">>, <<" ", " ">>}

GoalOptions == {<<>>, << <<<<"first", " ", "goal">>, <<"second">>>> >>}

EvidenceOptions == {<<>>, << <<JWord("e1")>> >>}

EvidenceRequiredOptions == {<<>>, <<TRUE>>}

MakeInputs(prompt, goals, evidence) ==
    [prompt |-> prompt] @@ Opt("goals", goals) @@ (IF evidence = <<>> THEN EmptyDict ELSE [context |-> [evidence |-> evidence[1]]])

MakeSpec(inputs, settings) ==
    [version |-> "1.0.0", id |-> "req-1", created_at |-> "2026-02-02T00:00:00Z", inputs |-> inputs]
        @@ (IF DOMAIN settings = {} THEN EmptyDict ELSE [settings |-> settings])

\* the loop segments requests ask for: start_step, end_step
LoopSegments == {<<"AcquireEvidence", "Verify">>, <<"Normalize", "Normalize">>, <<"Verify", "Verify">>,
                 <<"Audit", "Audit">>, <<"Normalize", "Audit">>, <<"Compute", "Synthesize">>}

BadLoopSegments == {<<"Verify", "Compute">>, <<"Verify", "Missing">>, <<"", "Verify">>}

StatusPassed == [path |-> <<"artifacts", "verification", "status">>, equals |-> JWord("passed")]

StopConditions == {StatusPassed,
                   [path |-> <<"artifacts", "verification", "checks", "task_count">>, operator |-> "gte", value |-> JInt(2)],
                   [path |-> <<"artifacts", "computation", "task_count">>, operator |-> "not_equals", value |-> JInt(1)],
                   [path |-> <<"artifacts", "audit", "status">>, operator |-> "equals", value |-> JWord("ok")],
                   [path |-> <<"artifacts", "verification", "checks", "tasks_present">>, equals |-> JInt(1)]}

BadStopConditions == {[path |-> <<"status">>, equals |-> JWord("running")],
                      [path |-> <<"artifacts", "verification", "status">>, operator |-> "contains", value |-> JWord("pass")],
                      [path |-> <<"artifacts", "computation", "task_count">>, operator |-> "gt", value |-> JBool(TRUE)],
                      [path |-> <<"artifacts", "computation", "task_count">>, equals |-> JInt(1), value |-> JInt(1)],
                      [path |-> <<"artifacts", "computation", "task_count">>, operator |-> "equals", value |-> JNull]}

MakeLoop(segment, max_iterations, stop_condition) ==
    [start_step |-> segment[1], end_step |-> segment[2], max_iterations |-> max_iterations, stop_condition |-> stop_condition]

LoopRequests ==
    {[problem_spec |-> MakeSpec(MakeInputs(BasePrompt, g, e), Opt("evidence_required", r) @@ [loop |-> MakeLoop(seg, m, c)])] :
        g \in GoalOptions, e \in EvidenceOptions, r \in EvidenceRequiredOptions,
        seg \in LoopSegments, m \in 1..MaxIterations, c \in StopConditions}

TestLoop(m) == MakeLoop(<<"AcquireEvidence", "Verify">>, m, StatusPassed)

BadLoopRequests ==
    {[problem_spec |-> MakeSpec(MakeInputs(BasePrompt, <<>>, <<>>), [loop |-> l])] :
        l \in {MakeLoop(seg, 1, StatusPassed) : seg \in BadLoopSegments}
              \cup {MakeLoop(<<"AcquireEvidence", "Verify">>, 1, c) : c \in BadStopConditions}
              \cup {TestLoop(0), [enabled |-> FALSE], [enabled |-> TRUE] @@ TestLoop(1), [start_step |-> "Verify"]}}

MaxStepsRequests ==
    {[problem_spec |-> MakeSpec(MakeInputs(BasePrompt, <<>>, <<>>), [max_steps |-> n] @@ l)] :
        n \in {0, 5, 7, 9, 10, 13},
        l \in {EmptyDict} \cup {[evidence_required |-> TRUE, loop |-> TestLoop(m)] : m \in 1..MaxIterations}}

VerificationPaths == {<<[name |-> <<"strict">>, evidence_required |-> TRUE], [name |-> <<"lenient">>]>>,
                      <<[name |-> <<"lenient">>, evidence_required |-> FALSE]>>,
                      <<[name |-> <<" ">>]>>,
                      <<>>}

SettingsRequests ==
    {[problem_spec |-> MakeSpec(MakeInputs(p, g, e), st)] :
        p \in Prompts, g \in GoalOptions, e \in EvidenceOptions,
        st \in {EmptyDict, [evidence_required |-> TRUE], [evidence_required |-> FALSE],
                [policy_profile |-> "default", model_profile |-> "m1"], [policy_profile |-> "fast"],
                [orchestration_framework |-> "native"], [orchestration_framework |-> "langgraph"],
                [orchestration_framework |-> "adapter"]}
               \cup {[verification_paths |-> vp] @@ Opt("evidence_required", r) : vp \in VerificationPaths, r \in EvidenceRequiredOptions}}

ArgRequests ==
    {[problem_spec |-> MakeSpec(MakeInputs(BasePrompt, <<>>, <<>>), l)] @@ Opt("trace_id", t) @@ Opt("engine_version", v) @@ Opt("now", n) :
        t \in {<<>>, <<"trace-1">>, <<"">>}, v \in {<<>>, <<"0.2.0">>, <<"v1">>},
        n \in {<<>>, <<"2026-02-03T12:00:00Z">>, <<"yesterday">>},
        l \in {EmptyDict, [evidence_required |-> TRUE, loop |-> TestLoop(MaxIterations)]}}

Requests == LoopRequests \cup BadLoopRequests \cup MaxStepsRequests \cup SettingsRequests \cup ArgRequests

Framework(req) == IF Has(Settings(req.problem_spec), "orchestration_framework") THEN req.problem_spec.settings.orchestration_framework ELSE "native"

\* ----------------------------------------------------------- specification
\* no registry under test, no HTTP layer: execute_problem is called directly
OuterIdle ==
    /\ policies = EmptyDict
    /\ register_calls = <<>>
    /\ registry_out = [op |-> "none"]
    /\ CACHE = [configured |-> FALSE, entries |-> EmptyDict]
    /\ TRACE_STORE = [configured |-> FALSE, traces |-> EmptyDict, trace_records |-> EmptyDict]
    /\ api_pc = "idle"
    /\ http_request = EmptyDict
    /\ http_response = [status |-> 0]
    /\ posts = <<>>
    /\ call = [fn |-> "none"]

Init ==
    /\ OuterIdle
    /\ suspended = NoFrame
    /\ request \in Requests
    /\ langgraph_installed \in BOOLEAN
    /\ langgraph_installed => Framework(request) = "langgraph"
    /\ pc = "call"
    /\ exception = "none"
    /\ engine_version = ""
    /\ now_value = ""
    /\ trace_id_value = ""
    /\ steps = <<>>
    /\ loop_config = NoLoop
    /\ loop_bounds = [kind |-> "none"]
    /\ state = NoState
    /\ trace = <<>>
    /\ prev_hash = NoHash
    /\ index = 0
    /\ failed = FALSE
    /\ step_cursor = 0
    /\ loop_iteration = 0
    /\ run = 1
    /\ first_result = NoResult

Next == Preamble \/ RunStep \/ Finalize \/ CallAgain

Spec == Init /\ [][Next]_vars

\* the runner with a handler table in which any step may fail
\* A call that has started keeps running: the interpreter executes the next
\* statement of execute_problem until the call returns or raises. This is weak
\* fairness of Preamble, RunStep and Finalize, each stated by its guard and the
\* variable every step of it changes (Preamble and Finalize move pc, RunStep
\* appends one or two records), and no other step of Next changes that
\* variable under that guard.
FairSpec ==
    /\ Spec
    /\ WF_pc(pc = "call" /\ pc' \in {"loop", "raised"})
    /\ WF_index(pc = "loop" /\ step_cursor < Len(steps) /\ index' \in {index + 1, index + 2})
    /\ WF_pc((pc = "return" \/ (pc = "loop" /\ step_cursor >= Len(steps))) /\ pc' = "returned")

RunnerNext == Preamble \/ RunStep \/ RunStepFailing \/ Finalize

RunnerSpec == Init /\ [][RunnerNext]_vars

\* ---------------------------------------------------- registry under test
\* execute_problem is not being called
EngineIdle ==
    /\ suspended = NoFrame
    /\ request = [problem_spec |-> EmptyDict]
    /\ langgraph_installed = FALSE
    /\ pc = "idle"
    /\ exception = "none"
    /\ engine_version = ""
    /\ now_value = ""
    /\ trace_id_value = ""
    /\ steps = <<>>
    /\ loop_config = NoLoop
    /\ loop_bounds = [kind |-> "none"]
    /\ state = NoState
    /\ trace = <<>>
    /\ prev_hash = NoHash
    /\ index = 0
    /\ failed = FALSE
    /\ step_cursor = 0
    /\ loop_iteration = 0
    /\ run = 1
    /\ first_result = NoResult

\* policy names, in the order Python compares them as strings
PolicyNames == <<"default", "fast", "strict">>

RoutingPolicies == {[name |-> PolicyNames[i], steps |-> st] : i \in 1..Len(PolicyNames), st \in {DEFAULT_POLICY.steps, <<"Normalize">>}}

\* a < b for two policy names
NameLess(a, b) == IndexOf(PolicyNames, a) < IndexOf(PolicyNames, b)

\* sorted(names): the one sequence of all the names that ascends
sorted_names(names) ==
    CHOOSE seq \in [1..Cardinality(names) -> names] :
        /\ \A n \in names : \E i \in 1..Cardinality(names) : seq[i] = n
        /\ \A i, j \in 1..Cardinality(names) : i < j => NameLess(seq[i], seq[j])

\* mutant: register replaces the policy already registered under the name
register_overwrite(policy) ==
    /\ policies' = Put(policies, policy.name, policy)
    /\ registry_out' = [op |-> "register", raised |-> IF policy.name \in DOMAIN policies THEN "ValueError" ELSE "none"]

\* PolicyRegistry.register
register(policy) ==
    IF policy.name \in DOMAIN policies
    THEN /\ registry_out' = [op |-> "register", raised |-> "ValueError"]
         /\ policies' = policies
    ELSE /\ policies' = Put(policies, policy.name, policy)
         /\ registry_out' = [op |-> "register", raised |-> "none"]

Register ==
    /\ Len(register_calls) < MaxRegisterCalls
    /\ \E policy \in RoutingPolicies :
          /\ register(policy)
          /\ register_calls' = Append(register_calls, policy)
    /\ UNCHANGED <<request, langgraph_installed, suspended, call, pc, exception, locals, run, first_result, CACHE, TRACE_STORE, api_pc, http_request, http_response, posts>>

\* PolicyRegistry.get
Get ==
    /\ \E i \in 1..Len(PolicyNames) :
          registry_out' = IF PolicyNames[i] \in DOMAIN policies
                          THEN [op |-> "get", name |-> PolicyNames[i], raised |-> "none", value |-> policies[PolicyNames[i]]]
                          ELSE [op |-> "get", name |-> PolicyNames[i], raised |-> "KeyError"]
    /\ UNCHANGED <<request, langgraph_installed, suspended, call, pc, exception, locals, run, first_result, policies, register_calls, CACHE, TRACE_STORE, api_pc, http_request, http_response, posts>>

\* PolicyRegistry.list_names
ListNames ==
    /\ registry_out' = [op |-> "list_names", raised |-> "none", value |-> sorted_names(DOMAIN policies)]
    /\ UNCHANGED <<request, langgraph_installed, suspended, call, pc, exception, locals, run, first_result, policies, register_calls, CACHE, TRACE_STORE, api_pc, http_request, http_response, posts>>

RegistryInit == OuterIdle /\ EngineIdle

RegistryNext == Register \/ Get \/ ListNames

RegistrySpec == RegistryInit /\ [][RegistryNext]_vars

\* --------------------------------------------------------------- HTTP layer
\* request.trace_id or str(request.problem_spec.get("id"))
trace_key(req) ==
    IF Has(req, "trace_id") /\ req.trace_id # "" THEN req.trace_id
    ELSE IF Has(req.problem_spec, "id") THEN req.problem_spec.id ELSE "None"

\* RedisCache.get_json: json.loads of the text stored under the key, None without it
get_json(cache, key) ==
    IF key \in DOMAIN cache.entries THEN [found |-> TRUE, value |-> cache.entries[key].json] ELSE [found |-> FALSE]

\* RedisCache.set_json: the canonical JSON text of the value is stored under the key
set_json(cache, key, value) == [cache EXCEPT !.entries = Put(@, key, [json |-> value])]

\* ExecuteResponse(**payload)
ExecuteResponse(payload) ==
    [trace_id |-> payload.trace_id, engine_version |-> payload.engine_version, trace |-> payload.trace, final_state |-> payload.final_state]

\* HTTPException(status_code, detail), and the 500 of an exception no handler catches
HttpError(endpoint, status_code) == [endpoint |-> endpoint, status |-> status_code]

\* psycopg's Json(value): the value as a JSONB column holds it
Json(value) == [jsonb |-> value]

\* extract_trace_metadata: the columns read from the header and the last record
extract_trace_metadata(records) ==
    [trace_id |-> records[1].trace_id,
     created_at |-> records[1].created_at,
     engine_version |-> records[1].engine_version,
     problem_spec_hash |-> records[1].problem_spec_hash,
     initial_state_hash |-> records[1].initial_state_hash,
     head_hash |-> records[Len(records)].record_hash,
     record_count |-> Len(records)]

\* prepare_trace_records: one row per record, its index the position from 0
prepare_trace_records(records) ==
    [i \in 1..Len(records) |->
        [index |-> i - 1,
         record_hash |-> records[i].record_hash,
         prev_hash |-> IF Has(records[i], "prev_hash") THEN records[i].prev_hash ELSE NoHash,
         record |-> Json(records[i])]]

\* mutant: the records are inserted after the rows the trace_id already has
store_trace_append(store, records, problem_spec, final_state) ==
    LET metadata == extract_trace_metadata(records)
        rows == prepare_trace_records(records)
        offset == Cardinality({k \in DOMAIN store.trace_records : k[1] = metadata.trace_id})
        new == {<<metadata.trace_id, offset + rows[i].index>> : i \in 1..Len(rows)}
    IN [store EXCEPT
          !.traces = Put(@, metadata.trace_id,
                         metadata @@ [request_id |-> problem_spec.id, problem_spec |-> Json(problem_spec), final_state |-> Json(final_state)]),
          !.trace_records = [k \in (DOMAIN @) \cup new |-> IF k \in new THEN rows[k[2] - offset + 1] ELSE @[k]]]

\* PostgresTraceStore.store_trace: upsert of the traces row and of one
\* trace_records row per record, keyed by (trace_id, index)
store_trace(store, records, problem_spec, final_state) ==
    LET metadata == extract_trace_metadata(records)
        rows == prepare_trace_records(records)
        new == {<<metadata.trace_id, rows[i].index>> : i \in 1..Len(rows)}
    IN [store EXCEPT
          !.traces = Put(@, metadata.trace_id,
                         metadata @@ [request_id |-> problem_spec.id, problem_spec |-> Json(problem_spec), final_state |-> Json(final_state)]),
          !.trace_records = [k \in (DOMAIN @) \cup new |-> IF k \in new THEN rows[k[2] + 1] ELSE @[k]]]

RECURSIVE SortAsc(_)
\* ORDER BY index ASC
SortAsc(indexes) ==
    IF indexes = {} THEN <<>>
    ELSE LET least == CHOOSE x \in indexes : \A y \in indexes : x <= y
         IN <<least>> \o SortAsc(indexes \ {least})

\* PostgresTraceStore.load_trace
load_trace(store, trace_id) ==
    LET order == SortAsc({k[2] : k \in {r \in DOMAIN store.trace_records : r[1] = trace_id}})
    IN [i \in 1..Len(order) |-> store.trace_records[<<trace_id, order[i]>>].record.jsonb]

\* the created_at texts in use, ascending as TEXT columns compare
IsoOrder == <<"2026-02-02T00:00:00Z", "2026-02-03T12:00:00Z">>

\* SELECT ... WHERE request_id = %s ORDER BY created_at DESC LIMIT 1: the rows
\* the query may return, any one among those with the greatest created_at
latest_trace_ids(store, request_id) ==
    LET mine == {t \in DOMAIN store.traces : store.traces[t].request_id = request_id}
    IN {t \in mine : \A u \in mine : IndexOf(IsoOrder, store.traces[t].created_at) >= IndexOf(IsoOrder, store.traces[u].created_at)}

\* the bodies of the POST /v1/execute requests clients send
ApiRequests ==
    LET base == MakeSpec(MakeInputs(BasePrompt, <<>>, <<>>), EmptyDict)
        with(settings) == MakeSpec(MakeInputs(BasePrompt, <<>>, <<>>), settings)
    IN {[problem_spec |-> base],
        [problem_spec |-> base, trace_id |-> "trace-1", now |-> "2026-02-03T12:00:00Z"],
        [problem_spec |-> base, trace_id |-> "trace-2"],
        [problem_spec |-> base, engine_version |-> "0.2.0"],
        [problem_spec |-> [base EXCEPT !.id = "req-2"]],
        [problem_spec |-> with([evidence_required |-> TRUE, loop |-> TestLoop(MaxIterations)])],
        [problem_spec |-> MakeSpec(MakeInputs(<<" ", " ">>, <<>>, <<>>), EmptyDict)],
        [problem_spec |-> with([policy_profile |-> "fast"])],
        [problem_spec |-> with([max_steps |-> 5])]}

\* the request ids clients replay
ReplayIds == {"req-1", "req-2", "req-9"}

\* mutant: the cache is looked up under the request id, whatever the trace_id
ExecuteBegin_KeyIsRequestId ==
    /\ api_pc = "idle"
    /\ Len(posts) < MaxPosts
    /\ \E req \in ApiRequests :
          /\ http_request' = req
          /\ IF CACHE.configured /\ get_json(CACHE, <<"trace:", req.problem_spec.id>>).found
             THEN /\ http_response' = [endpoint |-> "execute", status |-> 200, body |-> ExecuteResponse(get_json(CACHE, <<"trace:", req.problem_spec.id>>).value)]
                  /\ posts' = Append(posts, [request |-> req, response |-> http_response', served |-> "cache", stored |-> FALSE])
                  /\ UNCHANGED <<api_pc, request, pc>>
             ELSE /\ api_pc' = "engine"
                  /\ request' = [problem_spec |-> req.problem_spec, engine_version |-> OrElse(req, "engine_version", ENGINE_VERSION)]
                                    @@ (IF Has(req, "trace_id") THEN [trace_id |-> req.trace_id] ELSE EmptyDict)
                                    @@ (IF Has(req, "now") THEN [now |-> req.now] ELSE EmptyDict)
                  /\ pc' = "call"
                  /\ UNCHANGED <<http_response, posts>>
    /\ UNCHANGED <<langgraph_installed, suspended, call, exception, locals, run, first_result, policies, register_calls, registry_out, CACHE, TRACE_STORE>>

\* POST /v1/execute, lines 83-93: the cache is consulted, and on a miss
\* execute_problem is called
ExecuteBegin ==
    /\ api_pc = "idle"
    /\ Len(posts) < MaxPosts
    /\ \E req \in ApiRequests :
          /\ http_request' = req
          /\ IF CACHE.configured /\ trace_key(req) # "" /\ get_json(CACHE, <<"trace:", trace_key(req)>>).found
             THEN /\ http_response' = [endpoint |-> "execute", status |-> 200, body |-> ExecuteResponse(get_json(CACHE, <<"trace:", trace_key(req)>>).value)]
                  /\ posts' = Append(posts, [request |-> req, response |-> http_response', served |-> "cache", stored |-> FALSE])
                  /\ UNCHANGED <<api_pc, request, pc>>
             ELSE /\ api_pc' = "engine"
                  /\ request' = [problem_spec |-> req.problem_spec, engine_version |-> OrElse(req, "engine_version", ENGINE_VERSION)]
                                    @@ (IF Has(req, "trace_id") THEN [trace_id |-> req.trace_id] ELSE EmptyDict)
                                    @@ (IF Has(req, "now") THEN [now |-> req.now] ELSE EmptyDict)
                  /\ pc' = "call"
                  /\ UNCHANGED <<http_response, posts>>
    /\ UNCHANGED <<langgraph_installed, suspended, call, exception, locals, run, first_result, policies, register_calls, registry_out, CACHE, TRACE_STORE>>

\* the locals of a call that ended are gone
EngineReset ==
    /\ pc' = "idle"
    /\ exception' = "none"
    /\ engine_version' = ""
    /\ now_value' = ""
    /\ trace_id_value' = ""
    /\ steps' = <<>>
    /\ loop_config' = NoLoop
    /\ loop_bounds' = [kind |-> "none"]
    /\ state' = NoState
    /\ trace' = <<>>
    /\ prev_hash' = NoHash
    /\ index' = 0
    /\ failed' = FALSE
    /\ step_cursor' = 0
    /\ loop_iteration' = 0

\* mutant: the error answer is written to the cache
ExecuteFailed_CachesError ==
    /\ api_pc = "engine"
    /\ pc = "raised"
    /\ http_response' = HttpError("execute", IF exception = "ValueError" THEN 400 ELSE 500)
    /\ posts' = Append(posts, [request |-> http_request, response |-> http_response', served |-> "engine", stored |-> FALSE])
    /\ api_pc' = "idle"
    /\ CACHE' = IF CACHE.configured THEN set_json(CACHE, <<"trace:", trace_key(http_request)>>, http_response') ELSE CACHE
    /\ EngineReset
    /\ UNCHANGED <<request, langgraph_installed, suspended, call, run, first_result, policies, register_calls, registry_out, TRACE_STORE, http_request>>

\* lines 106-107: a ValueError of execute_problem is answered 400; any other
\* exception is not caught and the server answers 500
ExecuteFailed ==
    /\ api_pc = "engine"
    /\ pc = "raised"
    /\ http_response' = HttpError("execute", IF exception = "ValueError" THEN 400 ELSE 500)
    /\ posts' = Append(posts, [request |-> http_request, response |-> http_response', served |-> "engine", stored |-> FALSE])
    /\ api_pc' = "idle"
    /\ EngineReset
    /\ UNCHANGED <<request, langgraph_installed, suspended, call, run, first_result, policies, register_calls, registry_out, CACHE, TRACE_STORE, http_request>>

\* lines 94-105: the trace is written to the store when one is configured; a
\* database error is not caught, the server answers 500
ExecuteStore ==
    /\ api_pc = "engine"
    /\ pc = "returned"
    /\ \E database_ok \in BOOLEAN :
          IF ~TRACE_STORE.configured \/ database_ok
          THEN /\ ~TRACE_STORE.configured => database_ok
               /\ TRACE_STORE' = IF TRACE_STORE.configured THEN store_trace(TRACE_STORE, trace, request.problem_spec, state) ELSE TRACE_STORE
               /\ api_pc' = "cache"
               /\ UNCHANGED <<pc, exception, locals, http_response, posts>>
          ELSE /\ http_response' = HttpError("execute", 500)
               /\ posts' = Append(posts, [request |-> http_request, response |-> http_response', served |-> "engine", stored |-> FALSE])
               /\ api_pc' = "idle"
               /\ EngineReset
               /\ UNCHANGED TRACE_STORE
    /\ UNCHANGED <<request, langgraph_installed, suspended, call, run, first_result, policies, register_calls, registry_out, CACHE, http_request>>

\* mutant: the cached copy carries the server's engine version, not the run's
ExecuteRespond_CachesDefaultVersion ==
    /\ api_pc = "cache"
    /\ CACHE' = IF CACHE.configured /\ trace_key(http_request) # ""
                THEN set_json(CACHE, <<"trace:", trace_key(http_request)>>, [Drop(ExecutionResult, "kind") EXCEPT !.engine_version = ENGINE_VERSION])
                ELSE CACHE
    /\ http_response' = [endpoint |-> "execute", status |-> 200, body |-> ExecuteResponse(ExecutionResult)]
    /\ posts' = Append(posts, [request |-> http_request, response |-> http_response', served |-> "engine", stored |-> TRACE_STORE.configured])
    /\ api_pc' = "idle"
    /\ EngineReset
    /\ UNCHANGED <<request, langgraph_installed, suspended, call, run, first_result, policies, register_calls, registry_out, TRACE_STORE, http_request>>

\* lines 109-116: the response is written to the cache when one is configured,
\* and sent
ExecuteRespond ==
    /\ api_pc = "cache"
    /\ CACHE' = IF CACHE.configured /\ trace_key(http_request) # ""
                THEN set_json(CACHE, <<"trace:", trace_key(http_request)>>, Drop(ExecutionResult, "kind"))
                ELSE CACHE
    /\ http_response' = [endpoint |-> "execute", status |-> 200, body |-> ExecuteResponse(ExecutionResult)]
    /\ posts' = Append(posts, [request |-> http_request, response |-> http_response', served |-> "engine", stored |-> TRACE_STORE.configured])
    /\ api_pc' = "idle"
    /\ EngineReset
    /\ UNCHANGED <<request, langgraph_installed, suspended, call, run, first_result, policies, register_calls, registry_out, TRACE_STORE, http_request>>

\* a key written with a time to live (IDEMPOTENCY_TTL_SECONDS) expires
Expire ==
    /\ api_pc = "idle"
    /\ \E key \in DOMAIN CACHE.entries : CACHE' = [CACHE EXCEPT !.entries = Drop(@, key)]
    /\ UNCHANGED <<request, langgraph_installed, suspended, call, pc, exception, locals, run, first_result, policies, register_calls, registry_out, TRACE_STORE, api_pc, http_request, http_response, posts>>

\* lines 123-133 of replay for the row load_trace_by_request_id selected
replay(request_id, trace_id) ==
    [endpoint |-> "replay", request_id |-> request_id, status |-> 200,
     body |-> [trace_id |-> trace_id,
               engine_version |-> ENGINE_VERSION,
               trace |-> load_trace(TRACE_STORE, trace_id),
               final_state |-> TRACE_STORE.traces[trace_id].final_state.jsonb]]

\* GET /v1/replay/{request_id}
Replay ==
    /\ api_pc = "idle"
    /\ \E request_id \in ReplayIds :
          IF ~TRACE_STORE.configured
          THEN http_response' = [endpoint |-> "replay", request_id |-> request_id, status |-> 400]
          ELSE IF latest_trace_ids(TRACE_STORE, request_id) = {}
          THEN http_response' = [endpoint |-> "replay", request_id |-> request_id, status |-> 404]
          ELSE \E trace_id \in latest_trace_ids(TRACE_STORE, request_id) : http_response' = replay(request_id, trace_id)
    /\ UNCHANGED <<request, langgraph_installed, suspended, call, pc, exception, locals, run, first_result, policies, register_calls, registry_out, CACHE, TRACE_STORE, api_pc, http_request, posts>>

\* the server as _lifespan leaves it: store and cache configured or not, both empty
ApiInit ==
    /\ EngineIdle
    /\ policies = EmptyDict
    /\ register_calls = <<>>
    /\ registry_out = [op |-> "none"]
    /\ \E configured \in BOOLEAN : CACHE = [configured |-> configured, entries |-> EmptyDict]
    /\ \E configured \in BOOLEAN : TRACE_STORE = [configured |-> configured, traces |-> EmptyDict, trace_records |-> EmptyDict]
    /\ api_pc = "idle"
    /\ http_request = EmptyDict
    /\ http_response = [status |-> 0]
    /\ posts = <<>>
    /\ call = [fn |-> "none"]
    /\ suspended = NoFrame

ApiNext == ExecuteBegin \/ Preamble \/ RunStep \/ Finalize \/ ExecuteFailed \/ ExecuteStore \/ ExecuteRespond \/ Expire \/ Replay

ApiSpec == ApiInit /\ [][ApiNext]_vars

\* ------------------------------------------------------------ direct calls
\* validate_state: whether the state passes (it raises ValueError otherwise)
validate_state(st) ==
    /\ Has(st, "step_index") /\ st.step_index >= 0
    /\ Has(st, "status") /\ st.status \in {"pending", "running", "failed", "completed"}

\* the problems the states handed to the handlers are built from
HandlerProblems ==
    {MakeSpec(MakeInputs(p, <<>>, <<>>), EmptyDict) : p \in Prompts}
    \cup {MakeSpec(EmptyDict, EmptyDict), [version |-> "1.0.0", id |-> "req-1", created_at |-> "2026-02-02T00:00:00Z"]}
    \cup {MakeSpec(MakeInputs(BasePrompt, <<>>, <<>>), [structured_generation |-> TRUE, model_provider |-> "litellm", model_name |-> "gpt-test"])}
    \cup {MakeSpec(MakeInputs(BasePrompt, g, e), st) :
              g \in GoalOptions, e \in EvidenceOptions,
              st \in {EmptyDict, [evidence_required |-> TRUE]}
                     \cup {[verification_paths |-> vp] @@ Opt("evidence_required", r) :
                               vp \in VerificationPaths \ {<<>>}, r \in EvidenceRequiredOptions}}

\* the states a caller starts from: initial states, one that is no valid state
HandlerStates ==
    LET fresh == {initial_state(problem, "trace-1", "2026-02-02T00:00:00Z") : problem \in HandlerProblems}
        base == initial_state(MakeSpec(MakeInputs(BasePrompt, <<>>, <<>>), EmptyDict), "trace-1", "2026-02-02T00:00:00Z")
    IN fresh \cup {[base EXCEPT !.step_index = -1], [base EXCEPT !.status = "done"], Drop(base, "status")}

\* a handler called as handler(state, now=now): validate_state and
\* _now_required come first and raise ValueError
\* (provider_fails: whether LiteLLMProvider.complete raises on this host,
\* model_provider.py 35-42; no handler of steps.py calls the provider)
handler_call(step_name, st, now) ==
    IF ~validate_state(st) \/ now = "" THEN [raised |-> "ValueError"]
    ELSE STEP_HANDLERS(step_name, st, now)

\* a step handler is called, first on a fresh state, then on the state the last handler returned
CallHandler ==
    /\ pc = "idle"
    /\ \E step_name \in KnownSteps, now \in {""} \cup IsoUtcStrings :
          \E st \in IF call.fn = "none" THEN HandlerStates
                     ELSE IF Has(call.out, "state") /\ call.depth < MaxChain THEN {call.out.state} ELSE {},
             provider_fails \in IF step_name = "Synthesize" THEN BOOLEAN ELSE {FALSE} :
             call' = [fn |-> step_name, state |-> st, now |-> now,
                      depth |-> IF call.fn = "none" THEN 1 ELSE call.depth + 1,
                      provider_fails |-> provider_fails,
                      out |-> handler_call(step_name, st, now)]
    /\ UNCHANGED <<request, langgraph_installed, suspended, pc, exception, locals, run, first_result, outer>>

RECURSIVE RunSteps(_, _, _)
\* the state after the handlers named have run in turn, as the engine's loop runs them
RunSteps(st, names, now) ==
    IF names = <<>> THEN st
    ELSE RunSteps(STEP_HANDLERS(Head(names), st, now).state, Tail(names), now)

\* the states stop conditions are evaluated on: each prefix of the default policy
\* run on a problem with one task and no evidence, and on one with two tasks and evidence
StopStates ==
    {RunSteps(initial_state(problem, "trace-1", "2026-02-02T00:00:00Z"), SubSeq(DEFAULT_POLICY.steps, 1, k), "2026-02-02T00:00:00Z") :
        k \in 0..Len(DEFAULT_POLICY.steps),
        problem \in {MakeSpec(MakeInputs(BasePrompt, <<>>, <<>>), EmptyDict),
                     MakeSpec(MakeInputs(BasePrompt, << <<<<"first", " ", "goal">>, <<"second">>>> >>, << <<JWord("e1")>> >>), [evidence_required |-> TRUE])}}

\* the stop_condition objects of settings.loop, in both shapes
StopConditionShapes ==
    LET paths == {<<"artifacts", "verification", "status">>,
                  <<"artifacts", "computation", "task_count">>,
                  <<"artifacts", "verification", "checks", "tasks_present">>,
                  <<"artifacts", "verification", "missing">>,
                  <<"artifacts", "computation", "task_count", "digits">>,
                  <<"artifacts", "decomposition", "tasks", "0">>,
                  <<"artifacts", "decomposition">>}
        values == {JWord("passed"), JInt(0), JInt(1), JInt(2), JBool(TRUE), JBool(FALSE), JNull}
    IN {[path |-> q, operator |-> o, value |-> v] : q \in paths, o \in ALLOWED_OPERATORS \cup {"contains"}, v \in values}
       \cup {[path |-> q, equals |-> v] : q \in paths, v \in values}

\* parse_loop_config on a spec with this stop_condition, then, when the
\* configuration is accepted, stop_condition_met on a state
CallStopCondition ==
    /\ pc = "idle"
    /\ call.fn = "none"
    /\ \E st \in StopStates, stop_condition \in StopConditionShapes :
          LET config == parse_loop_config(MakeSpec(MakeInputs(BasePrompt, <<>>, <<>>), [loop |-> MakeLoop(<<"AcquireEvidence", "Verify">>, 1, stop_condition)]))
          IN call' = [fn |-> "stop_condition_met", state |-> st, stop_condition |-> stop_condition, config |-> config,
                      out |-> IF config.kind = "config" THEN [returned |-> stop_condition_met(st, config)] ELSE [raised |-> "ValueError"]]
    /\ UNCHANGED <<request, langgraph_installed, suspended, pc, exception, locals, run, first_result, outer>>

\* no engine run, no server: the functions of the package are called directly
\* schemas.py: ProblemSpecModel.model_validate succeeds on problem_spec. The
\* models of the loop, of its stop condition and of a verification path forbid
\* extra keys; a field without a default is required.
parse_problem_spec(problem_spec) ==
    LET LoopStopCondition(c) ==
            /\ DOMAIN c \subseteq {"path", "operator", "value"}
            /\ Has(c, "path") /\ Len(c.path) >= 1
            /\ Has(c, "operator")
            /\ c.operator \in {"equals", "not_equals", "contains", "not_contains", "in", "not_in", "gt", "gte", "lt", "lte"}
            /\ Has(c, "value")
        LoopConfigModel(l) ==
            /\ DOMAIN l \subseteq {"enabled", "start_step", "end_step", "max_iterations", "stop_condition"}
            /\ Has(l, "enabled")
            /\ Has(l, "start_step") /\ l.start_step # ""
            /\ Has(l, "end_step") /\ l.end_step # ""
            /\ Has(l, "max_iterations") /\ l.max_iterations >= 1
            /\ Has(l, "stop_condition") /\ LoopStopCondition(l.stop_condition)
        VerificationPathConfig(e) ==
            /\ DOMAIN e \subseteq {"name", "evidence_required"}
            /\ Has(e, "name") /\ Len(e.name) >= 1
        ProblemInputsModel(inputs) ==
            /\ Has(inputs, "prompt") /\ Len(inputs.prompt) >= 1 /\ ~IsBlank(inputs.prompt)
            /\ validate_optional_str_list(inputs, "constraints")
            /\ validate_optional_str_list(inputs, "goals")
        ProblemSettingsModel(settings) ==
            /\ Has(settings, "max_steps") => settings.max_steps > 0
            /\ Has(settings, "policy_profile") => settings.policy_profile # ""
            /\ Has(settings, "model_profile") => settings.model_profile # ""
            /\ Has(settings, "orchestration_framework") => settings.orchestration_framework \in {"native", "langgraph"}
            /\ Has(settings, "verification_paths") =>
                  \A i \in 1..Len(settings.verification_paths) : VerificationPathConfig(settings.verification_paths[i])
            /\ Has(settings, "loop") => LoopConfigModel(settings.loop)
    IN /\ Has(problem_spec, "version") /\ validate_semver(problem_spec.version)
       /\ SemverParts[problem_spec.version][1] = 1
       /\ Has(problem_spec, "id") /\ problem_spec.id # ""
       /\ Has(problem_spec, "created_at") /\ validate_iso8601_utc(problem_spec.created_at)
       /\ Has(problem_spec, "inputs") /\ ProblemInputsModel(problem_spec.inputs)
       /\ Has(problem_spec, "settings") => ProblemSettingsModel(problem_spec.settings)

\* the problem specs the two layers are handed: those of the requests, every
\* stop_condition shape and operator name with and without `enabled`, and
\* specs whose version, id or created_at is wrong
ProblemSpecs ==
    LET base == MakeSpec(MakeInputs(BasePrompt, <<>>, <<>>), EmptyDict)
        schema_only == {[path |-> <<"artifacts", "verification", "status">>, operator |-> o, value |-> JWord("passed")] :
                            o \in {"not_contains", "in", "not_in"}}
    IN {r.problem_spec : r \in Requests}
       \cup {MakeSpec(MakeInputs(BasePrompt, <<>>, <<>>), [loop |-> e @@ MakeLoop(<<"AcquireEvidence", "Verify">>, 1, c)]) :
                e \in {EmptyDict, [enabled |-> TRUE]}, c \in StopConditionShapes \cup schema_only}
       \cup {[base EXCEPT !.version = v] : v \in {"2.0.0", "0.1.0", "v1"}}
       \cup {[base EXCEPT !.id = ""], [base EXCEPT !.created_at = "yesterday"], Drop(base, "inputs")}

\* validate_problem_spec and parse_problem_spec on one problem spec: `out`
\* records which of the two returns (TRUE) and which raises ValueError (FALSE)
CallValidateProblemSpec ==
    /\ pc = "idle"
    /\ call.fn = "none"
    /\ \E problem_spec \in ProblemSpecs :
          call' = [fn |-> "validate_problem_spec", problem_spec |-> problem_spec,
                   out |-> [primitive |-> validate_problem_spec(problem_spec),
                            schema |-> parse_problem_spec(problem_spec)]]
    /\ UNCHANGED <<request, langgraph_installed, suspended, pc, exception, locals, run, first_result, outer>>

\* invariants.py validate_step_result returns (TRUE) or raises ValueError (FALSE)
validate_step_result(result) ==
    /\ \A key \in {"version", "step", "status", "input_hash", "output_hash", "started_at", "finished_at"} : Has(result, key)
    /\ result.status \in {"success", "failed", "skipped"}
    /\ result.status = "success" => Has(result, "output")
    /\ result.status = "failed" => Has(result, "errors")
    /\ result.status = "skipped" => ~(Has(result, "output") \/ Has(result, "errors"))

\* step results as _step_result builds them, with every status and every
\* combination of the two payloads, and the same with one required field missing
StepResults ==
    LET base == step_result("Normalize", "skipped", "2026-02-02T00:00:00Z", "2026-02-02T00:00:00Z", [prompt |-> BasePrompt], EmptyDict, <<>>)
        outputs == {<<>>, <<EmptyDict>>, <<[normalized_prompt |-> BasePrompt]>>}
        errors == {<<>>, << <<>> >>, << <<[code |-> "invalid_prompt", message |-> "prompt is required"]>> >>}
        full == {[base EXCEPT !.status = s] @@ Opt("output", o) @@ Opt("errors", e) :
                    s \in {"success", "failed", "skipped", "unknown"}, o \in outputs, e \in errors}
    IN full \cup {Drop(r, k) : r \in full, k \in {"version", "status", "output_hash"}}

CallValidateStepResult ==
    /\ pc = "idle"
    /\ call.fn = "none"
    /\ \E result \in StepResults :
          call' = [fn |-> "validate_step_result", result |-> result, out |-> [returned |-> validate_step_result(result)]]
    /\ UNCHANGED <<request, langgraph_installed, suspended, pc, exception, locals, run, first_result, outer>>

FunctionInit == OuterIdle /\ EngineIdle

FunctionNext == CallHandler \/ CallStopCondition \/ CallValidateProblemSpec \/ CallValidateStepResult

FunctionSpec == FunctionInit /\ [][FunctionNext]_vars

\* ------------------------------------------------------ parallel executions
\* Two worker contexts call execute_problem, each on its own problem spec.
\* The variables of the engine are the frame of the worker that runs; the frame
\* of the other worker waits in `suspended`. The package keeps no module-level
\* mutable object (routing.py 54-57 builds a registry per call, engine.py
\* 125-160 builds state and trace per call), so a frame is all a call owns.
ParallelRequests ==
    {[problem_spec |-> MakeSpec(MakeInputs(BasePrompt, <<>>, <<>>), EmptyDict)],
     [problem_spec |-> MakeSpec(MakeInputs(BasePrompt, <<>>, <<>>), [evidence_required |-> TRUE, loop |-> TestLoop(MaxIterations)]), trace_id |-> "trace-1"],
     [problem_spec |-> MakeSpec(MakeInputs(BasePrompt, << <<<<"first", " ", "goal">>, <<"second">>>> >>, << <<JWord("e1")>> >>), [loop |-> TestLoop(1)]),
      now |-> "2026-02-03T12:00:00Z"],
     [problem_spec |-> MakeSpec(MakeInputs(BasePrompt, <<>>, <<>>), [max_steps |-> 5])]}

\* the frame of the call that runs; overlapped: the two calls were once both
\* inside the while loop
Frame(overlapped) ==
    [kind |-> "frame", request |-> request, pc |-> pc, exception |-> exception, locals |-> locals,
     run |-> run, first_result |-> first_result, overlapped |-> overlapped]

\* The scheduler hands the processor to the other worker. Each worker makes
\* its first call undisturbed (that call is the one "run alone"); from its
\* second call on it can be preempted between any two steps.
SwitchTo(trace_of_other) ==
    /\ suspended.kind = "frame"
    /\ \/ pc \in {"returned", "raised"}
       \/ run > 1 /\ (suspended.run > 1 \/ suspended.pc \in {"returned", "raised"})
    /\ suspended' = Frame(suspended.overlapped \/ (pc = "loop" /\ suspended.pc = "loop"))
    /\ request' = suspended.request
    /\ pc' = suspended.pc
    /\ exception' = suspended.exception
    /\ engine_version' = suspended.locals[1]
    /\ now_value' = suspended.locals[2]
    /\ trace_id_value' = suspended.locals[3]
    /\ steps' = suspended.locals[4]
    /\ loop_config' = suspended.locals[5]
    /\ loop_bounds' = suspended.locals[6]
    /\ state' = suspended.locals[7]
    /\ trace' = trace_of_other
    /\ prev_hash' = suspended.locals[9]
    /\ index' = suspended.locals[10]
    /\ failed' = suspended.locals[11]
    /\ step_cursor' = suspended.locals[12]
    /\ loop_iteration' = suspended.locals[13]
    /\ run' = suspended.run
    /\ first_result' = suspended.first_result
    /\ UNCHANGED <<langgraph_installed, outer, call>>

\* mutant: the two calls append to one trace list
Switch_SharedTrace == SwitchTo(trace)

Switch == SwitchTo(suspended.locals[8])

ParallelInit ==
    /\ OuterIdle
    /\ request \in ParallelRequests
    /\ langgraph_installed = FALSE
    /\ pc = "call"
    /\ exception = "none"
    /\ engine_version = ""
    /\ now_value = ""
    /\ trace_id_value = ""
    /\ steps = <<>>
    /\ loop_config = NoLoop
    /\ loop_bounds = [kind |-> "none"]
    /\ state = NoState
    /\ trace = <<>>
    /\ prev_hash = NoHash
    /\ index = 0
    /\ failed = FALSE
    /\ step_cursor = 0
    /\ loop_iteration = 0
    /\ run = 1
    /\ first_result = NoResult
    /\ \E other \in ParallelRequests :
          suspended = [kind |-> "frame", request |-> other, pc |-> "call", exception |-> "none",
                       locals |-> <<"", "", "", <<>>, NoLoop, [kind |-> "none"], NoState, <<>>, NoHash, 0, FALSE, 0, 0>>,
                       run |-> 1, first_result |-> NoResult, overlapped |-> FALSE]

ParallelNext == Preamble \/ RunStep \/ Finalize \/ CallAgain \/ Switch

ParallelSpec == ParallelInit /\ [][ParallelNext]_vars

\* ------------------------------------------------------------------ claims
StepRecords == {i \in 1..Len(trace) : trace[i].type = "step"}

ControlRecords == {i \in 1..Len(trace) : trace[i].type = "control"}

\* C1: in the trace of an execution every record after the header has prev_hash
\* equal to the record_hash of the record before it.
C1_ChainIntegrity ==
    \A i \in 2..Len(trace) : trace[i].prev_hash = trace[i - 1].record_hash

\* a returned trace where a step record follows a control record
C1_Witness ==
    /\ pc = "returned"
    /\ \E i \in ControlRecords : i + 1 \in StepRecords /\ trace[i + 1].prev_hash = trace[i].record_hash

\* digests a record may carry in record_hash before it is hashed
SomeHashes == {NoHash, hash_json(EmptyDict), prev_hash}

\* C2: the record_hash of every record of the trace is the digest of the record
\* without its record_hash field, and compute_record_hash gives that digest
\* whatever record_hash the record carries.
C2_RecordHashFixedPoint ==
    \A i \in 1..Len(trace) :
        /\ trace[i].record_hash = hash_json(Drop(trace[i], "record_hash"))
        /\ \A h \in SomeHashes :
              compute_record_hash(Put(trace[i], "record_hash", h)) = hash_json(Drop(trace[i], "record_hash"))

\* a returned trace holding the three kinds of record
C2_Witness ==
    /\ pc = "returned"
    /\ trace[1].type = "header"
    /\ StepRecords # {}
    /\ ControlRecords # {}
    /\ compute_record_hash(trace[Len(trace)]) = prev_hash

C4_EveryRecordIndexed ==
    \A i \in 1..Len(trace) : Has(trace[i], "index") /\ trace[i].index = i - 1

\* C4 amended: the header carries no index; every step or control record
\* carries an index equal to its position, the header being at position 0.
C4_IndexIsPosition ==
    /\ trace # <<>> => ~Has(trace[1], "index")
    /\ \A i \in 2..Len(trace) : Has(trace[i], "index") /\ trace[i].index = i - 1

\* a returned trace where a step record follows a control record
C4_Witness ==
    /\ pc = "returned"
    /\ \E i \in ControlRecords : i + 1 \in StepRecords /\ trace[i + 1].index = i

\* C5: a step record right after a step record starts from the state hash the
\* earlier one ended with, and the first step record starts from the header's
\* initial_state_hash.
C5_StateHashLinkage ==
    /\ \A i \in StepRecords : (i + 1) \in StepRecords => trace[i + 1].state_before_hash = trace[i].state_after_hash
    /\ Len(trace) >= 2 => (2 \in StepRecords /\ trace[2].state_before_hash = trace[1].initial_state_hash)

\* a returned trace of eight records or more, with two step records in a row
C5_Witness ==
    /\ pc = "returned"
    /\ Len(trace) >= 8
    /\ \E i \in StepRecords : (i + 1) \in StepRecords /\ trace[i + 1].state_before_hash = trace[i].state_after_hash

\* the moves of status the claim allows between two states of an execution
StrictMove(a, b) == a = b \/ <<a, b>> \in {<<"pending", "running">>, <<"running", "completed">>, <<"running", "failed">>}

\* the next step of the specification runs a step handler
RunningStep == pc = "loop" /\ step_cursor < Len(steps)

\* the step about to run is the end step of the configured loop
AtEndStep == RunningStep /\ loop_bounds.kind = "bounds" /\ step_cursor = loop_bounds.end_index

\* the 1-based loop iteration, counted from the repeats the trace records
IterationNow == 1 + Cardinality({i \in ControlRecords : trace[i].action = "repeat"})

LastRecord(records) == records[Len(records)]

\* the last record of the trace is a control record with this action
EndsWithControl(records, action) == records # <<>> /\ LastRecord(records).type = "control" /\ LastRecord(records).action = action

\* the state the handler of the step about to run returns, before the runner
\* marks a failure on it
HandlerState == STEP_HANDLERS(steps[step_cursor + 1], copy_state(state), now_value).state

NoLoopConfigured(problem_spec) ==
    \/ ~Has(Settings(problem_spec), "loop")
    \/ Has(problem_spec.settings.loop, "enabled") /\ ~problem_spec.settings.loop.enabled

\* C7: a request without a loop that execute_problem accepts returns the header
\* and one step record per step of the default policy, in order, no control
\* record, and a completed final state with step_index 7.
C7_NoLoopTrace ==
    (pc = "returned" /\ NoLoopConfigured(request.problem_spec)) =>
        /\ Len(trace) = 8
        /\ trace[1].type = "header"
        /\ \A i \in 1..7 :
              /\ trace[i + 1].type = "step"
              /\ trace[i + 1].result.step = <<"Normalize", "Decompose", "AcquireEvidence", "Compute", "Verify", "Synthesize", "Audit">>[i]
        /\ state.status = "completed"
        /\ state.step_index = 7

\* a request whose loop is disabled has returned
C7_Witness ==
    /\ pc = "returned"
    /\ Has(Settings(request.problem_spec), "loop")
    /\ NoLoopConfigured(request.problem_spec)
    /\ Len(trace) = 8

\* C8: when the stop predicate holds on the state the end step produced, the
\* step record is followed by one control record with action stop, the only one
\* of the trace, the cursor moves to end_index + 1 and the run is not failed; the
\* step run next is the one after the end step, or the run ends completed.
C8_StopAdvances ==
    [][/\ (AtEndStep /\ stop_condition_met(state', loop_config)) =>
             /\ Len(trace') = Len(trace) + 2
             /\ trace'[Len(trace) + 1].type = "step"
             /\ trace'[Len(trace) + 1].result.step = request.problem_spec.settings.loop.end_step
             /\ EndsWithControl(trace', "stop")
             /\ \A i \in ControlRecords : trace[i].action # "stop"
             /\ step_cursor' = loop_bounds.end_index + 1
             /\ ~failed' /\ state'.status = "running" /\ pc' = "loop"
       /\ (RunningStep /\ EndsWithControl(trace, "stop")) =>
             /\ trace'[Len(trace) + 1].type = "step"
             /\ trace'[Len(trace) + 1].result.step = steps[loop_bounds.end_index + 2]
       /\ (pc = "loop" /\ ~RunningStep /\ EndsWithControl(trace, "stop")) =>
             /\ loop_bounds.end_index + 1 = Len(steps)
             /\ pc' = "returned" /\ trace' = trace /\ state'.status = "completed"]_vars

\* a returned trace where a step record follows a stop control
C8_Witness ==
    /\ pc = "returned"
    /\ state.status = "completed"
    /\ \E i \in ControlRecords : trace[i].action = "stop" /\ (i + 1) \in StepRecords /\ (i - 1) \in StepRecords

\* C9: when the stop predicate is false on the state the end step produced and
\* the iteration is below max_iterations, a control record with action repeat
\* follows the step record, the cursor goes to start_index and the iteration
\* counter grows by 1; the step run next is the start step, it starts from the
\* state the end step left and step_index goes on increasing.
C9_RepeatKeepsState ==
    [][/\ (AtEndStep /\ ~stop_condition_met(state', loop_config) /\ IterationNow < request.problem_spec.settings.loop.max_iterations) =>
             /\ Len(trace') = Len(trace) + 2
             /\ trace'[Len(trace) + 1].type = "step"
             /\ EndsWithControl(trace', "repeat")
             /\ LastRecord(trace').loop_iteration = IterationNow
             /\ step_cursor' = loop_bounds.start_index
             /\ loop_iteration' = IterationNow + 1
             /\ ~failed' /\ state'.status = "running" /\ pc' = "loop"
       /\ (RunningStep /\ EndsWithControl(trace, "repeat")) =>
             /\ trace'[Len(trace) + 1].type = "step"
             /\ trace'[Len(trace) + 1].result.step = request.problem_spec.settings.loop.start_step
             /\ trace'[Len(trace) + 1].state_before_hash = trace[Len(trace) - 1].state_after_hash
             /\ trace'[Len(trace) + 1].step_index = trace[Len(trace) - 1].step_index + 1
             /\ state'.step_index = state.step_index + 1]_vars

\* a returned trace where a step record follows a repeat control
C9_Witness ==
    /\ pc = "returned"
    /\ \E i \in ControlRecords : trace[i].action = "repeat" /\ (i + 1) \in StepRecords /\ trace[i + 1].state_before_hash = trace[i - 1].state_after_hash

\* the error execute_problem records when the loop is exhausted
ExhaustedError(loop) ==
    [code |-> "loop_max_iterations_reached",
     message |-> <<"Loop stop condition not met after ", Decimal(loop.max_iterations), " iteration(s).">>,
     step |-> loop.end_step]

\* C10: when the stop predicate is false on the state the end step produced and
\* the iteration equals max_iterations, a control record with action
\* max_iterations_reached is the last record of the trace, the state is failed
\* with the loop_max_iterations_reached error, and the call returns that state
\* without running another step.
C10_MaxIterationsFails ==
    [][/\ (AtEndStep /\ ~stop_condition_met(state', loop_config) /\ IterationNow = request.problem_spec.settings.loop.max_iterations) =>
             /\ Len(trace') = Len(trace) + 2
             /\ trace'[Len(trace) + 1].type = "step"
             /\ EndsWithControl(trace', "max_iterations_reached")
             /\ pc' = "return"
             /\ state'.status = "failed"
             /\ \E k \in 1..Len(state'.errors) : state'.errors[k] = ExhaustedError(request.problem_spec.settings.loop)
       /\ pc = "return" => (pc' = "returned" /\ trace' = trace /\ state' = state)]_vars

\* a call returned after a repeat and then max_iterations_reached
C10_Witness ==
    /\ pc = "returned"
    /\ EndsWithControl(trace, "max_iterations_reached")
    /\ \E i \in ControlRecords : trace[i].action = "repeat"
    /\ state.status = "failed"

\* the request without settings.max_steps
WithoutMaxSteps(req) ==
    IF Has(Settings(req.problem_spec), "max_steps")
    THEN [req EXCEPT !.problem_spec.settings = Drop(@, "max_steps")]
    ELSE req

\* len(steps) + (max_iterations - 1) * segment_length for the default policy
RequiredSteps(problem_spec) ==
    LET loop == IF Has(Settings(problem_spec), "loop") THEN problem_spec.settings.loop ELSE EmptyDict
        policy == DEFAULT_POLICY.steps
    IN IF NoLoopConfigured(problem_spec) THEN Len(policy)
       ELSE Len(policy) + (loop.max_iterations - 1) * (IndexOf(policy, loop.end_step) - IndexOf(policy, loop.start_step) + 1)

\* C11: for a request that is accepted without settings.max_steps, a max_steps
\* below len(steps) + (max_iterations - 1) * segment_length (len(steps) without
\* a loop) makes execute_problem raise a value error before the header exists;
\* a max_steps of at least that count lets the run start.
C11_MaxStepsFailFast ==
    [][(pc = "call" /\ Has(Settings(request.problem_spec), "max_steps") /\ PreambleError(WithoutMaxSteps(request)) = "none") =>
          IF request.problem_spec.settings.max_steps < RequiredSteps(request.problem_spec)
          THEN pc' = "raised" /\ exception' = "ValueError" /\ trace' = <<>>
          ELSE pc' = "loop" /\ Len(trace') = 1 /\ trace'[1].type = "header"]_vars

\* a request with enough max_steps for the policy, too few for the loop repeats
C11_Witness ==
    /\ pc = "raised"
    /\ exception = "ValueError"
    /\ trace = <<>>
    /\ Has(Settings(request.problem_spec), "max_steps")
    /\ request.problem_spec.settings.max_steps >= Len(DEFAULT_POLICY.steps)
    /\ request.problem_spec.settings.max_steps < RequiredSteps(request.problem_spec)

\* C12: when the handler of a step returns a result with status failed, the
\* runner commits a state with status failed, the result's errors appended to
\* state.errors and metadata.updated_at set to now, appends the step's record and
\* leaves the loop; the call then returns that failed state.
C12_StepFailureHalts ==
    [][/\ (RunningStep /\ trace'[Len(trace) + 1].result.status = "failed") =>
             /\ trace'[Len(trace) + 1].type = "step"
             /\ state'.status = "failed"
             /\ Len(state'.errors) >= Len(state.errors) + Len(trace'[Len(trace) + 1].result.errors)
             /\ SubSeq(state'.errors, 1, Len(state.errors) + Len(trace'[Len(trace) + 1].result.errors)) = state.errors \o trace'[Len(trace) + 1].result.errors
             /\ state'.metadata.updated_at = now_value
             /\ state'.step_index = state.step_index
             /\ failed' /\ pc' = "return"
       /\ pc = "return" => (pc' = "returned" /\ trace' = trace /\ state' = state /\ state'.status = "failed")]_vars

\* a call that returned after a step failed, some steps having succeeded
C12_Witness ==
    /\ pc = "returned"
    /\ state.status = "failed"
    /\ Len(trace) > 3
    /\ \E i \in StepRecords : trace[i].result.status = "failed" /\ trace[i].result.errors # <<>>
    /\ \A i \in ControlRecords : trace[i].action # "max_iterations_reached"

\* C13: a returned final_state has status completed or failed; it is completed
\* exactly when no step record has a failed result and no control record has
\* action max_iterations_reached.
C13_TerminalStatus ==
    pc = "returned" =>
        /\ state.status \in {"completed", "failed"}
        /\ state.status = "completed" <=>
              /\ \A i \in StepRecords : trace[i].result.status # "failed"
              /\ \A i \in ControlRecords : trace[i].action # "max_iterations_reached"

\* a completed return of a run whose loop stopped before the last step
C13_Witness ==
    /\ pc = "returned"
    /\ state.status = "completed"
    /\ \E i \in ControlRecords : trace[i].action = "stop" /\ i < Len(trace)
    /\ \A i \in StepRecords : trace[i].result.status = "success"

\* the first policy register was called with under this name
FirstRegistered(name) ==
    register_calls[CHOOSE i \in 1..Len(register_calls) :
                       /\ register_calls[i].name = name
                       /\ \A j \in 1..(i - 1) : register_calls[j].name # name]

\* C16: after any sequence of register calls each name maps to the first policy
\* registered under it, a register call under a name already registered raised
\* ValueError, get of an unregistered name raises KeyError and returns the
\* registered policy otherwise, and list_names returns the registered names in
\* ascending order.
C16_RegistryFirstWins ==
    /\ DOMAIN policies = {register_calls[i].name : i \in 1..Len(register_calls)}
    /\ \A name \in DOMAIN policies : policies[name] = FirstRegistered(name)
    /\ registry_out.op = "register" =>
          (registry_out.raised = "ValueError" <=>
              \E j \in 1..(Len(register_calls) - 1) : register_calls[j].name = register_calls[Len(register_calls)].name)
    /\ registry_out.op = "get" =>
          /\ registry_out.raised = "KeyError" <=> registry_out.name \notin DOMAIN policies
          /\ registry_out.raised = "none" => registry_out.value = FirstRegistered(registry_out.name)
    /\ registry_out.op = "list_names" =>
          /\ Len(registry_out.value) = Cardinality(DOMAIN policies)
          /\ {registry_out.value[i] : i \in 1..Len(registry_out.value)} = DOMAIN policies
          /\ \A i \in 1..(Len(registry_out.value) - 1) : NameLess(registry_out.value[i], registry_out.value[i + 1])

\* a name registered twice with different steps, the second call having failed
C16_Witness ==
    /\ registry_out.op = "register"
    /\ registry_out.raised = "ValueError"
    /\ Len(register_calls) >= 3
    /\ register_calls[Len(register_calls)] # policies[register_calls[Len(register_calls)].name]

\* C14: when execute_problem rejects the request no trace record exists, POST
\* /v1/execute answers with an error status, and neither the store nor the
\* cache is written.
C14_NoPartialTrace ==
    [][(api_pc = "engine" /\ pc = "raised") =>
          /\ trace = <<>>
          /\ http_response'.status \in {400, 500}
          /\ ~Has(http_response', "body")
          /\ posts' = Append(posts, [request |-> http_request, response |-> http_response', served |-> "engine", stored |-> FALSE])
          /\ TRACE_STORE' = TRACE_STORE
          /\ CACHE' = CACHE]_vars

\* a request is rejected by a server whose store and cache hold an earlier trace
C14_Witness ==
    /\ Len(posts) = 2
    /\ posts[1].response.status = 200
    /\ posts[2].response.status = 400
    /\ posts[2].served = "engine"
    /\ DOMAIN TRACE_STORE.traces # {}
    /\ DOMAIN CACHE.entries # {}

\* C15: a spec whose settings.policy_profile names an unregistered policy is
\* rejected as a validation error is: execute_problem raises a value error with
\* no trace, and POST /v1/execute answers 400.
C15_UnknownPolicyIsValueError ==
    /\ (pc = "raised" /\ select_policy_name(request.problem_spec, "default") \notin DOMAIN default_registry) =>
          (exception = "ValueError" /\ trace = <<>>)
    /\ \A i \in 1..Len(posts) :
          (posts[i].served = "engine" /\ select_policy_name(posts[i].request.problem_spec, "default") \notin DOMAIN default_registry) =>
              posts[i].response.status = 400

C18_CacheBeforeEngine ==
    [][LET req == http_request'
           key == <<"trace:", IF Has(req, "trace_id") THEN req.trace_id ELSE req.problem_spec.id>>
           hit == CACHE.configured /\ key \in DOMAIN CACHE.entries
       IN /\ (api_pc = "idle" /\ posts' # posts) =>
                /\ hit
                /\ http_response' = [endpoint |-> "execute", status |-> 200, body |-> CACHE.entries[key].json]
                /\ pc' = "idle"
                /\ TRACE_STORE' = TRACE_STORE
                /\ CACHE' = CACHE
          /\ (api_pc = "idle" /\ api_pc' = "engine") => (~hit /\ pc' = "call" /\ TRACE_STORE' = TRACE_STORE /\ CACHE' = CACHE)
          /\ api_pc = "engine" => CACHE' = CACHE
          /\ (api_pc = "engine" /\ pc = "returned") =>
                \/ /\ api_pc' = "cache"
                   /\ TRACE_STORE.configured =>
                         /\ trace_id_value \in DOMAIN TRACE_STORE'.traces
                         /\ TRACE_STORE'.traces[trace_id_value].head_hash = trace[Len(trace)].record_hash
                         /\ \A i \in 1..Len(trace) : TRACE_STORE'.trace_records[<<trace_id_value, i - 1>>].record.jsonb = trace[i]
                \/ /\ api_pc' = "idle"
                   /\ TRACE_STORE.configured
                   /\ http_response'.status = 500
          /\ TRACE_STORE' # TRACE_STORE => (api_pc = "engine" /\ pc = "returned")
          /\ api_pc = "cache" =>
                /\ TRACE_STORE' = TRACE_STORE
                /\ http_response'.status = 200
                /\ CACHE.configured => (key \in DOMAIN CACHE'.entries /\ CACHE'.entries[key].json = http_response'.body)
                /\ ~CACHE.configured => CACHE' = CACHE]_vars

\* a request executed, stored and cached is answered from the cache when posted again
C18_Witness ==
    /\ Len(posts) = 2
    /\ posts[1].served = "engine"
    /\ posts[1].stored
    /\ posts[2].served = "cache"
    /\ posts[2].request = posts[1].request
    /\ Has(posts[2].request, "trace_id")

\* C19: after a POST of a request with problem_spec.id = R was executed,
\* stored and answered 200, GET /v1/replay/R answers 200 with the body the POST
\* was answered with: trace_id, engine_version, trace and final_state.
C19_ReplayEqualsExecute ==
    (/\ api_pc = "idle"
     /\ Len(posts) > 0
     /\ Has(http_response, "request_id")
     /\ posts[Len(posts)].stored
     /\ posts[Len(posts)].response.status = 200
     /\ http_response.request_id = posts[Len(posts)].request.problem_spec.id) =>
        (http_response.status = 200 /\ http_response.body = posts[Len(posts)].response.body)

\* C20: when executions of the same problem_spec.id were stored under different
\* trace ids, GET /v1/replay/{request_id} answers with the trace_id, trace and
\* final_state of the one stored last.
C20_ReplayReturnsLastStored ==
    LET mine == {i \in 1..Len(posts) : posts[i].stored /\ posts[i].response.status = 200
                                          /\ Has(http_response, "request_id")
                                          /\ posts[i].request.problem_spec.id = http_response.request_id}
        last == CHOOSE i \in mine : \A j \in mine : j <= i
    IN (api_pc = "idle" /\ Cardinality({posts[i].response.body.trace_id : i \in mine}) > 1) =>
          /\ http_response.status = 200
          /\ http_response.body.trace_id = posts[last].response.body.trace_id
          /\ http_response.body.trace = posts[last].response.body.trace
          /\ http_response.body.final_state = posts[last].response.body.final_state

\* C21: once store_trace has written a trace, calling it again with the same
\* trace, problem_spec and final_state leaves the traces and trace_records
\* tables as the first call left them.
C21_StoreIdempotent ==
    [][(api_pc = "engine" /\ pc = "returned" /\ api_pc' = "cache" /\ TRACE_STORE.configured) =>
          /\ TRACE_STORE' = store_trace(TRACE_STORE, trace, request.problem_spec, state)
          /\ store_trace(TRACE_STORE', trace, request.problem_spec, state) = TRACE_STORE']_vars

\* a trace was written over the rows of a longer trace stored under the same trace_id
C21_Witness ==
    /\ api_pc = "cache"
    /\ TRACE_STORE.configured
    /\ trace_id_value \in DOMAIN TRACE_STORE.traces
    /\ Cardinality({k \in DOMAIN TRACE_STORE.trace_records : k[1] = trace_id_value}) > Len(trace)
    /\ TRACE_STORE.traces[trace_id_value].record_count = Len(trace)

\* C22: normalize, called on a valid state whose prompt is missing or blank,
\* returns a failed result with the one error invalid_prompt / prompt is
\* required and returns the state as it was given: step_index, status and
\* artifacts included.
C22_NormalizeRejectsBlank ==
    (/\ call.fn = "Normalize"
     /\ Has(call.out, "result")
     /\ \/ ~Has(call.state.problem, "inputs")
        \/ ~Has(call.state.problem.inputs, "prompt")
        \/ \A i \in 1..Len(call.state.problem.inputs.prompt) : call.state.problem.inputs.prompt[i] = " ") =>
        /\ call.out.result.status = "failed"
        /\ call.out.result.errors = <<[code |-> "invalid_prompt", message |-> <<"prompt is required">>]>>
        /\ ~Has(call.out.result, "output")
        /\ call.out.state = call.state

\* normalize is called on a blank prompt after another handler advanced the state
C22_Witness ==
    /\ call.fn = "Normalize"
    /\ call.depth = 2
    /\ call.state.step_index = 1
    /\ DOMAIN call.state.artifacts # {}
    /\ Has(call.state.problem, "inputs")
    /\ Has(call.state.problem.inputs, "prompt")
    /\ call.state.problem.inputs.prompt = <<" ", " ">>
    /\ Has(call.out, "result")
    /\ call.out.result.status = "failed"

C24_StepIndexCounts ==
    /\ \A i \in StepRecords : trace[i].step_index = Cardinality({j \in StepRecords : j < i})
    /\ pc = "returned" => state.step_index = Cardinality({i \in StepRecords : trace[i].result.status = "success"})

\* a run that repeated its loop segment and ended on a failed step
C24_Witness ==
    /\ pc = "returned"
    /\ \E i \in ControlRecords : trace[i].action = "repeat"
    /\ \E i \in StepRecords : trace[i].result.status = "failed" /\ trace[i].step_index > 7
    /\ state.step_index > 7

\* the stop path of the call leads to a value: every segment is a key of a mapping
StopPathPresent ==
    LET a == call.state.artifacts
        q == call.config.stop_path
    IN /\ q[2] \in DOMAIN a
       /\ Len(q) >= 3 => (a[q[2]].t = "obj" /\ q[3] \in DOMAIN a[q[2]].v)
       /\ Len(q) >= 4 => (a[q[2]].v[q[3]].t = "obj" /\ q[4] \in DOMAIN a[q[2]].v[q[3]].v)

\* the value the stop path of the call leads to
StopValueFound ==
    LET a == call.state.artifacts
        q == call.config.stop_path
    IN IF Len(q) = 2 THEN a[q[2]] ELSE IF Len(q) = 3 THEN a[q[2]].v[q[3]] ELSE a[q[2]].v[q[3]].v[q[4]]

\* C25: stop_condition_met returns false, whatever the operator, when the stop
\* path is absent from the state: a segment is missing, or the value before it
\* is not a mapping (a list is not descended into); when the path is present
\* the verdict is the operator's on the value found there.
C25_AbsentPathIsFalse ==
    (call.fn = "stop_condition_met" /\ Has(call.out, "returned")) =>
        LET target == call.config.stop_value
            found == StopValueFound
        IN /\ ~StopPathPresent => call.out.returned = FALSE
           /\ StopPathPresent =>
                 call.out.returned =
                     CASE call.config.stop_operator = "equals" -> PyEq(found, target)
                       [] call.config.stop_operator = "not_equals" -> ~PyEq(found, target)
                       [] call.config.stop_operator = "gt" -> found.t = "int" /\ found.v > target.v
                       [] call.config.stop_operator = "gte" -> found.t = "int" /\ found.v >= target.v
                       [] call.config.stop_operator = "lt" -> found.t = "int" /\ found.v < target.v
                       [] call.config.stop_operator = "lte" -> found.t = "int" /\ found.v <= target.v

\* not_equals is asked about a key the verification artifact does not have
C25_Witness ==
    /\ call.fn = "stop_condition_met"
    /\ Has(call.out, "returned")
    /\ call.config.stop_operator = "not_equals"
    /\ call.config.stop_path = <<"artifacts", "verification", "missing">>
    /\ Has(call.state.artifacts, "verification")
    /\ call.out.returned = FALSE

\* C26: for equals and not_equals the verdict on a present value is structural
\* equality with the target: equals holds iff the two have the same JSON type
\* and the same value (true does not equal 1), and not_equals holds iff equals
\* does not.
C26_StructuralEquality ==
    (/\ call.fn = "stop_condition_met"
     /\ Has(call.out, "returned")
     /\ call.config.stop_operator \in {"equals", "not_equals"}
     /\ StopPathPresent) =>
        LET same == StopValueFound.t = call.config.stop_value.t /\ StopValueFound.v = call.config.stop_value.v
        IN call.out.returned = IF call.config.stop_operator = "equals" THEN same ELSE ~same

\* C27: a stop condition with operator gt, gte, lt or lte is accepted exactly
\* when its value is an integer that is not a boolean; on a present value the
\* verdict is false unless that value is an integer that is not a boolean, and
\* is then the integer comparison of the value with the target.
C27_IntegerComparison ==
    (/\ call.fn = "stop_condition_met"
     /\ Has(call.stop_condition, "operator")
     /\ call.stop_condition.operator \in {"gt", "gte", "lt", "lte"}) =>
        /\ Has(call.out, "returned") <=> call.stop_condition.value.t = "int"
        /\ (Has(call.out, "returned") /\ StopPathPresent) =>
              call.out.returned =
                  (/\ StopValueFound.t = "int"
                   /\ CASE call.stop_condition.operator = "gt" -> StopValueFound.v > call.stop_condition.value.v
                        [] call.stop_condition.operator = "gte" -> StopValueFound.v >= call.stop_condition.value.v
                        [] call.stop_condition.operator = "lt" -> StopValueFound.v < call.stop_condition.value.v
                        [] call.stop_condition.operator = "lte" -> StopValueFound.v <= call.stop_condition.value.v)

\* gte 1 is asked about a value that is the boolean true
C27_Witness ==
    /\ call.fn = "stop_condition_met"
    /\ Has(call.out, "returned")
    /\ call.config.stop_operator = "gte"
    /\ call.config.stop_value = JInt(1)
    /\ StopPathPresent
    /\ StopValueFound.t = "bool"
    /\ StopValueFound.v
    /\ call.out.returned = FALSE

\* C28: the two validation layers agree: validate_problem_spec (the
\* primitive-rule layer) accepts a problem spec if and only if
\* parse_problem_spec (the schema layer) accepts it, for every stop_condition
\* shape and every operator name.
C28_LayersAgree ==
    call.fn = "validate_problem_spec" => call.out.primitive = call.out.schema

\* C29: validate_step_result accepts a step result that has every required
\* field and a valid status exactly when it carries output and no errors
\* (status success), errors and no output (status failed), or neither (status
\* skipped); a success result with errors and a failed result with output are
\* rejected.
C29_ExactlyOnePayload ==
    (/\ call.fn = "validate_step_result"
     /\ \A key \in {"version", "step", "status", "input_hash", "output_hash", "started_at", "finished_at"} : Has(call.result, key)
     /\ call.result.status \in {"success", "failed", "skipped"}) =>
        (call.out.returned <=>
            \/ call.result.status = "success" /\ Has(call.result, "output") /\ ~Has(call.result, "errors")
            \/ call.result.status = "failed" /\ Has(call.result, "errors") /\ ~Has(call.result, "output")
            \/ call.result.status = "skipped" /\ ~Has(call.result, "output") /\ ~Has(call.result, "errors"))

\* C30: verify's output status is passed iff tasks are present and evidence is
\* not required or evidence_count > 0. With verification_paths, each path is
\* judged with its own evidence_required (the settings default when it has
\* none), aggregate.total is the number of paths of the output (every
\* configured path when all of them are named), aggregate.failed_count the
\* number of failed paths, and the aggregate status and the top-level status
\* are passed iff every path passed.
C30_VerifyStatus ==
    (call.fn = "Verify" /\ Has(call.out, "result")) =>
        LET artifacts == call.state.artifacts
            settings == IF Has(call.state.problem, "settings") THEN call.state.problem.settings ELSE EmptyDict
            tasks_present == Has(artifacts, "decomposition") /\ artifacts.decomposition.v.tasks.v # <<>>
            evidence_present == Has(artifacts, "evidence") /\ artifacts.evidence.v.evidence_count.v > 0
            default == Has(settings, "evidence_required") /\ settings.evidence_required
            configured == IF Has(settings, "verification_paths") THEN settings.verification_paths ELSE <<>>
            output == call.out.result.output.v
            Passes(required) == tasks_present /\ (~required \/ evidence_present)
        IN IF configured = <<>>
           THEN /\ ~Has(output, "aggregate")
                /\ output.status = JWord("passed") <=> Passes(default)
           ELSE LET paths == output.paths.v
                    aggregate == output.aggregate.v
                    failed_paths == {i \in 1..Len(paths) : paths[i].v.status # JWord("passed")}
                IN /\ aggregate.total = JInt(Len(paths))
                   /\ aggregate.failed_count = JInt(Cardinality(failed_paths))
                   /\ aggregate.status = JWord("passed") <=> failed_paths = {}
                   /\ aggregate.status \in {JWord("passed"), JWord("failed")}
                   /\ output.status = aggregate.status
                   /\ (\A i \in 1..Len(configured) : Has(configured[i], "name") /\ ~IsBlank(configured[i].name)) =>
                         /\ Len(paths) = Len(configured)
                         /\ \A i \in 1..Len(configured) :
                               /\ paths[i].v.name = JStr(configured[i].name)
                               /\ paths[i].v.status \in {JWord("passed"), JWord("failed")}
                               /\ paths[i].v.status = JWord("passed") <=>
                                     Passes(IF Has(configured[i], "evidence_required")
                                            THEN configured[i].evidence_required ELSE default)

\* Verify after Decompose on a problem with the paths strict (evidence
\* required) and lenient (default: not required) and no evidence: two paths,
\* one failed, and the top-level status is failed
C30_Witness ==
    /\ call.fn = "Verify"
    /\ Has(call.out, "result")
    /\ Has(call.state.artifacts, "decomposition")
    /\ ~Has(call.state.artifacts, "evidence")
    /\ Has(call.state.problem, "settings")
    /\ Has(call.state.problem.settings, "verification_paths")
    /\ Len(call.state.problem.settings.verification_paths) = 2
    /\ ~Has(call.state.problem.settings, "evidence_required")
    /\ call.out.result.output.v.aggregate.v.total = JInt(2)
    /\ call.out.result.output.v.aggregate.v.failed_count = JInt(1)
    /\ call.out.result.output.v.paths.v[2].v.status = JWord("passed")
    /\ call.out.result.output.v.status = JWord("failed")

C32_StructuredGenerationFails ==
    (/\ call.fn = "Synthesize"
     /\ Has(call.out, "result")
     /\ Has(call.state.problem, "settings")
     /\ Has(call.state.problem.settings, "structured_generation")
     /\ call.state.problem.settings.structured_generation
     /\ call.provider_fails) =>
        /\ call.out.result.status = "failed"
        /\ Has(call.out.result, "errors")
        /\ Len(call.out.result.errors) >= 1
        /\ call.out.result.errors[1].code = "structured_generation_failed"
        /\ call.out.state.step_index = call.state.step_index

\* C33: execute_problem always terminates: every call returns or raises, and
\* the while loop appends at most len(steps) + (max_iterations - 1) *
\* segment_length step records (len(steps) without a loop), so when
\* settings.max_steps is set no returned trace holds more step records than
\* max_steps.
C33_Terminates ==
    /\ [](pc \in {"loop", "return", "returned"} =>
            LET looping == loop_config.kind = "config" /\ loop_bounds.kind = "bounds"
                most == Len(steps) + (IF looping
                                      THEN (loop_config.max_iterations - 1) * (loop_bounds.end_index - loop_bounds.start_index + 1)
                                      ELSE 0)
            IN /\ Cardinality(StepRecords) <= most
               /\ (Has(request.problem_spec, "settings") /\ Has(request.problem_spec.settings, "max_steps")) =>
                      Cardinality(StepRecords) <= request.problem_spec.settings.max_steps)
    /\ (pc = "call" ~> pc \in {"returned", "raised"})

\* a call with max_steps set whose loop repeated has returned
C33_Witness ==
    /\ pc = "returned"
    /\ Has(request.problem_spec, "settings")
    /\ Has(request.problem_spec.settings, "max_steps")
    /\ loop_config.kind = "config"
    /\ loop_config.max_iterations > 1
    /\ \E i \in ControlRecords : trace[i].action = "repeat"
    /\ Cardinality(StepRecords) > Len(steps)

\* C34: in every trace returned by execute_problem with a loop configured, a
\* control record comes only immediately after a step record for end_step; the
\* loop_iteration values of the control records are 1, 2, ..., k in order with
\* k <= max_iterations; at most max_iterations - 1 controls are repeats; and a
\* control with action stop or max_iterations_reached is the last control of
\* the trace (so there is at most one).
C34_ControlRecords ==
    (pc = "returned" /\ loop_config.kind = "config") =>
        /\ \A i \in ControlRecords :
              /\ i > 1
              /\ trace[i - 1].type = "step"
              /\ trace[i - 1].result.step = loop_config.end_step
              /\ trace[i].loop_iteration = Cardinality({j \in ControlRecords : j <= i})
              /\ trace[i].loop_iteration <= loop_config.max_iterations
              /\ trace[i].action \in {"repeat", "stop", "max_iterations_reached"}
              /\ trace[i].action \in {"stop", "max_iterations_reached"} => \A j \in ControlRecords : j <= i
        /\ Cardinality({i \in ControlRecords : trace[i].action = "repeat"}) <= loop_config.max_iterations - 1

\* a returned trace with two control records, a repeat and then the control
\* that ends the loop, each right after a record of the end step
C34_Witness ==
    /\ pc = "returned"
    /\ loop_config.kind = "config"
    /\ Cardinality(ControlRecords) = 2
    /\ \E i, j \in ControlRecords :
          /\ i < j
          /\ trace[i].action = "repeat" /\ trace[i].loop_iteration = 1
          /\ trace[j].action = "max_iterations_reached" /\ trace[j].loop_iteration = 2
          /\ trace[j - 1].result.step = loop_config.end_step

C37_ControlStateHash ==
    \A i \in ControlRecords :
        /\ i > 1
        /\ trace[i - 1].type = "step"
        /\ trace[i].state_hash = trace[i - 1].state_after_hash
        /\ i < Len(trace) =>
               /\ trace[i + 1].type = "step"
               /\ trace[i + 1].state_before_hash = trace[i].state_hash
        /\ (pc = "returned" /\ trace[i].action = "max_iterations_reached") =>
               trace[i].state_hash = hash_json(state)

\* a returned trace with a repeat control between two step records and a
\* max_iterations_reached control at its end
C37_Witness ==
    /\ pc = "returned"
    /\ \E i \in ControlRecords :
           /\ trace[i].action = "repeat"
           /\ i < Len(trace)
           /\ trace[i + 1].type = "step"
           /\ trace[i + 1].state_before_hash = trace[i - 1].state_after_hash
    /\ \E i \in ControlRecords :
           /\ trace[i].action = "max_iterations_reached"
           /\ trace[i].state_hash = hash_json(state)

\* C38: every 200 response of POST /v1/execute is the result of executing the
\* problem_spec of that very request: the header of the answered trace carries
\* the hash of the request's problem_spec, also when the trace_id or id of the
\* request was used before with another problem_spec or the problem_spec is
\* invalid.
C38_ResponseOfThisRequest ==
    \A i \in 1..Len(posts) :
        posts[i].response.status = 200 =>
            posts[i].response.body.trace[1].problem_spec_hash = hash_json(posts[i].request.problem_spec)

\* C39: once store_trace has written a trace, load_trace(trace_id) returns
\* exactly the records of that trace in index order, and the stored
\* record_count is the number of trace_records rows of the trace_id, also when
\* a longer trace had been stored under the same trace_id before.
C39_LoadReturnsLastStored ==
    (api_pc = "cache" /\ TRACE_STORE.configured) =>
        /\ load_trace(TRACE_STORE, trace_id_value) = trace
        /\ TRACE_STORE.traces[trace_id_value].record_count =
               Cardinality({k \in DOMAIN TRACE_STORE.trace_records : k[1] = trace_id_value})

====
